---- MODULE Spec2Model ----
(***************************************************************************)
(* Session routing of the streamable-HTTP MCP server (src/unnamed/part_000,*)
(* the two-endpoint successor of src/src/index.ts) and the widget-side     *)
(* JSON-RPC client McpUiClient (src/src/widgets/lib/use-mcp-ui.ts).        *)
(*                                                                         *)
(* Server: one registry object per endpoint maps a session id to a         *)
(* StreamableHTTPServerTransport.  A route handler runs to completion up   *)
(* to its first await; the POST handler of a new session suspends at       *)
(* `await server.connect(transport)` and continues with                    *)
(* transport.handleRequest, which is where the transport generates its id  *)
(* and calls onsessioninitialized.                                         *)
(***************************************************************************)
EXTENDS Integers, Sequences, FiniteSets, TLC

\* ------------------------------------------------------------------ bounds
MaxRequests == 3
MaxTransports == 2
MaxSends == 2
MaxSizeChanges == 2
MaxInstances == 2
MaxReports == 3
\* how far below 1 and above 500 the bubble counts tried reach
Margin == 2

\* ------------------------------------------------------- program constants
BadRequest == 400
NotFound == 404
\* handed to transport.handleRequest: the transport writes the response
Delegated == 0
\* req.headers["mcp-session-id"] undefined (or the empty string): falsy
NoSessionId == 0
\* the range of bubbleCount and its default
MinBubbleCount == 1
MaxBubbleCount == 500
DefaultBubbleCount == 100

Endpoints == {"/mcp", "/mcp-app"}
\* the ids a client may present: every id randomUUID can produce here and
\* one it never produces
SessionIds == 1..(MaxTransports + 1)
TransportIds == 1..MaxTransports
HeaderValues == SessionIds \cup {NoSessionId}

\* request bodies as express.json() hands them to the route
InitializeBody == [method |-> "initialize", wellFormed |-> TRUE]
BadInitializeBody == [method |-> "initialize", wellFormed |-> FALSE]
ToolsCallBody == [method |-> "tools/call", wellFormed |-> TRUE]
Bodies == {InitializeBody, BadInitializeBody, ToolsCallBody}
NoBody == [method |-> "", wellFormed |-> FALSE]

\* isInitializeRequest of the SDK: the initialize method with valid params
isInitializeRequest(body) == body.method = "initialize" /\ body.wellFormed

VARIABLES
  mcpTransports,     \* registry of /mcp: session id -> transport
  mcpAppTransports,  \* registry of /mcp-app: session id -> transport
  transport,         \* the StreamableHTTPServerTransport objects constructed
  suspended,         \* POST handlers suspended at await server.connect(transport)
  requestCount,      \* requests that have arrived
  uuidCount,         \* ids randomUUID() has produced
  last               \* the request handled by the last step and its outcome

serverVars == <<mcpTransports, mcpAppTransports, transport, suspended,
                requestCount, uuidCount, last>>

\* McpUiClient
VARIABLES
  requestId,         \* private requestId = 0
  pendingRequests,   \* Map id -> PendingRequest (the sendRequest call it belongs to)
  timers,            \* the sendRequest calls whose setTimeout is armed
  calls,             \* the sendRequest calls made: id, method, settlements of the promise
  posted,            \* window.parent.postMessage, in order
  listening,         \* the "message" listener is attached to window
  initialized,       \* private initialized = false
  hostContext,       \* private hostContext: HostContext | null
  toolArguments,     \* private toolArguments
  toolResult,        \* private toolResult
  notificationHandlers, \* Map method -> Set of handlers
  event              \* what the last step of the widget did

\* McpUiStore
VARIABLES
  initPromise,       \* private initPromise: 0 (null) or the client call it awaits
  state              \* private state: McpUiState

clientVars == <<requestId, pendingRequests, timers, calls, posted, listening,
                initialized, hostContext, toolArguments, toolResult,
                notificationHandlers, event, initPromise, state>>

\* the MCP servers' tools, resources and capability detection
VARIABLES
  toolCall,          \* a tools/call of bubble_wrap: server, arguments, outcome
  assets,            \* the assets directory: widget name -> its built HTML file
  widgetHtmlCache,   \* let widgetHtmlCache: string | null = null (mcp-server.ts)
  loaded,            \* the last call of a widget asset loader and its outcome
  detection          \* client capabilities, a MIME type and what the guards said

libraryVars == <<toolCall, assets, widgetHtmlCache, loaded, detection>>

\* the widget module around the client: the singleton and useSizeNotifier
VARIABLES
  clientInstance,    \* let clientInstance: McpUiClient | null (0: null, n: the n-th instance)
  constructed,       \* how many times new McpUiClient(options) has run
  clientOptions,     \* the options the current instance was constructed with
  timeoutRef,        \* useSizeNotifier: the debounce timer and what its callback captured
  lastSizeRef,       \* useSizeNotifier: the size last handed to notifySizeChanged
  reported,          \* the sizes the component has reported, in order
  sizesSent          \* params of the size-changed notifications posted, in order

widgetVars == <<clientInstance, constructed, clientOptions, timeoutRef, lastSizeRef,
                reported, sizesSent>>

vars == <<serverVars, clientVars, libraryVars, widgetVars>>

Registry(ep) == IF ep = "/mcp" THEN mcpTransports ELSE mcpAppTransports

\* transports[sessionId] is truthy
Registered(ep, sid) == sid \in DOMAIN Registry(ep)

NoRequest == [req |-> 0, op |-> "none", ep |-> "/mcp", sid |-> NoSessionId,
              body |-> NoBody, status |-> Delegated, t |-> 0, threw |-> FALSE, closedBefore |-> FALSE]

\* null or undefined where an object is expected
Null == [present |-> FALSE, theme |-> "", locale |-> ""]

\* an object with the keys theme and locale; "" stands for a key it lacks
Obj(theme, locale) == [present |-> TRUE, theme |-> theme, locale |-> locale]

NoEvent == [op |-> "none", id |-> 0, k |-> 0]

ClientInit ==
  /\ requestId = 0
  /\ pendingRequests = <<>>
  /\ timers = {}
  /\ calls = <<>>
  /\ posted = <<>>
  /\ listening = TRUE
  /\ initialized = FALSE
  /\ hostContext = Null
  /\ toolArguments = Null
  /\ toolResult = Null
  /\ notificationHandlers = <<>>
  /\ event = NoEvent
  /\ initPromise = 0
  /\ state = [initialized |-> FALSE, hostContext |-> Null, toolArguments |-> Null,
              toolResult |-> Null, error |-> "null"]

ServerInit ==
  /\ mcpTransports = <<>>
  /\ mcpAppTransports = <<>>
  /\ transport = <<>>
  /\ suspended = {}
  /\ requestCount = 0
  /\ uuidCount = 0
  /\ last = NoRequest

\* ---------------------------------------------------- values of the servers
\* the server modules that register a bubble_wrap tool
ToolServers == {"mcp-server.ts", "mcp-server-sep1865.ts", "mcp/server.ts"}

\* a number whole + half/2 (an integer or an integer and a half), or the
\* argument left out
Number(whole, half) == [given |-> TRUE, whole |-> whole, half |-> half]
NoNumber == [given |-> FALSE, whole |-> 0, half |-> 0]

\* the outcome of a tool call: an error thrown (by the schema or the handler)
\* or the CallToolResult returned
NoResult ==
  [threw |-> FALSE, by |-> "", message |-> "", content |-> FALSE,
   structuredContent |-> [present |-> FALSE, bubbleCount |-> 0]]
Thrown(by, message) ==
  [threw |-> TRUE, by |-> by, message |-> message, content |-> FALSE,
   structuredContent |-> [present |-> FALSE, bubbleCount |-> 0]]
Returned(validBubbleCount) ==
  [threw |-> FALSE, by |-> "", message |-> "", content |-> TRUE,
   structuredContent |-> [present |-> TRUE, bubbleCount |-> validBubbleCount]]

NoToolCall ==
  [server |-> "mcp-server.ts", bubbleCount |-> NoNumber, done |-> FALSE,
   result |-> NoResult]

\* the widgets the build writes to the assets directory
Widgets == {"bubble-wrap", "packing-slip"}
\* a file of the assets directory: absent, present but unreadable, or readable
Missing == [exists |-> FALSE, readable |-> FALSE, markup |-> ""]
Unreadable == [exists |-> TRUE, readable |-> FALSE, markup |-> ""]
File(markup) == [exists |-> TRUE, readable |-> TRUE, markup |-> markup]
Markups == {"", "<p>pop</p>", "<p>slip</p>"}
Files == {Missing, Unreadable} \cup {File(m) : m \in Markups}
\* null where a string is expected
NullHtml == "null"

NoLoad ==
  [loader |-> "", widgetName |-> "", called |-> FALSE, threw |-> FALSE,
   html |-> NullHtml]

\* capabilities undefined, and capabilities without an MCP Apps entry
NoEntry == [present |-> FALSE, hasMimeTypes |-> FALSE, mimeTypes |-> {}]
NoCapabilities ==
  [defined |-> FALSE, extensions |-> NoEntry, experimental |-> NoEntry]

NoDetection ==
  [capabilities |-> NoCapabilities, mimeType |-> "", asked |-> {},
   supportsMimeType |-> FALSE, supportsMcpApps |-> FALSE]

LibraryInit ==
  /\ toolCall = NoToolCall
  /\ assets = [w \in Widgets |-> Missing]
  /\ widgetHtmlCache = NullHtml
  /\ loaded = NoLoad
  /\ detection = NoDetection

\* no size (lastSizeRef.current === null) and no timer
NoSize == [width |-> 0, height |-> 0]
NoTimer == [armed |-> FALSE, size |-> NoSize, client |-> FALSE]
NoOptions == "undefined"

\* useSizeNotifier as first rendered
NotifierInit ==
  /\ timeoutRef = NoTimer
  /\ lastSizeRef = NoSize
  /\ reported = <<>>
  /\ sizesSent = <<>>

\* the client whose fields the client variables hold is the one instance
WidgetInit ==
  /\ clientInstance = 1
  /\ constructed = 1
  /\ clientOptions = NoOptions
  /\ NotifierInit

Init ==
  /\ ClientInit
  /\ ServerInit
  /\ LibraryInit
  /\ WidgetInit

\* ------------------------------------------------- the transport (SDK side)
\* mutant: a generator that repeats the id it handed out last
staleUUID == IF uuidCount = 0 THEN 1 ELSE uuidCount

\* sessionIdGenerator: () => randomUUID(); a UUID never produced before
randomUUID == uuidCount + 1

\* new StreamableHTTPServerTransport({...}) followed by server.connect(transport):
\* no session id until the transport has handled an initialize request
NewTransport(ep) ==
  [endpoint |-> ep,
   server |-> IF ep = "/mcp" THEN "initMcpServer" ELSE "initMcpAppServer",
   sessionId |-> NoSessionId, closed |-> FALSE, sseOpen |-> FALSE,
   delivered |-> <<>>]

\* mutant: the callback forgets to store the transport
onsessioninitializedDropped(reg, sid, t) == reg

\* onsessioninitialized: (sid) => { transports[sid] = transport }
onsessioninitialized(reg, sid, t) ==
  [k \in (DOMAIN reg) \cup {sid} |-> IF k = sid THEN t ELSE reg[k]]

\* mutant: the close callback deletes nothing
oncloseKeeps(reg, tr) == reg

\* mutant: the close callback empties the whole registry
oncloseClearsAll(reg, tr) == [k \in {} |-> 0]

\* transport.onclose = () => { if (transport.sessionId) delete transports[transport.sessionId] }
onclose(reg, tr) ==
  IF tr.sessionId # NoSessionId
    THEN [k \in (DOMAIN reg) \ {tr.sessionId} |-> reg[k]]
    ELSE reg

SetRegistry(ep, reg) ==
  /\ mcpTransports' = IF ep = "/mcp" THEN reg ELSE mcpTransports
  /\ mcpAppTransports' = IF ep = "/mcp-app" THEN reg ELSE mcpAppTransports

\* transport.handleRequest(req, res, req.body) of a POST: an initialize request
\* on a transport without a session generates the id and calls
\* onsessioninitialized before the message is delivered; every message is
\* delivered to the server connected to this transport
TransportHandlePost(t, body, req) ==
  LET tr == transport[t]
      init == isInitializeRequest(body) /\ tr.sessionId = NoSessionId
      sid == randomUUID
  IN  /\ transport' = [transport EXCEPT
                         ![t].sessionId = IF init THEN sid ELSE @,
                         ![t].delivered = Append(@, req)]
      /\ uuidCount' = IF init THEN uuidCount + 1 ELSE uuidCount
      /\ IF init
           THEN SetRegistry(tr.endpoint,
                            onsessioninitialized(Registry(tr.endpoint), sid, t))
           ELSE UNCHANGED <<mcpTransports, mcpAppTransports>>

\* transport.close(): ends the streams and calls onclose
TransportClose(t) ==
  LET tr == transport[t]
  IN  /\ transport' = [transport EXCEPT ![t].closed = TRUE, ![t].sseOpen = FALSE]
      /\ SetRegistry(tr.endpoint, onclose(Registry(tr.endpoint), tr))

\* transport.handleRequest(req, res) of a GET (attach the push stream) or of
\* a DELETE (terminate the session)
TransportHandleSession(t, method) ==
  IF method = "DELETE"
    THEN TransportClose(t)
    ELSE /\ transport' = [transport EXCEPT ![t].sseOpen = TRUE]
         /\ UNCHANGED <<mcpTransports, mcpAppTransports>>

\* mutant: the lookup's result is dropped and a session is constructed anyway
ReuseTransportFresh(ep, sid, body, req, throws) ==
  /\ Len(transport) < MaxTransports
  /\ transport' = Append(transport, NewTransport(ep))
  /\ suspended' = suspended \cup
       {[req |-> req, ep |-> ep, t |-> Len(transport) + 1, body |-> body]}
  /\ UNCHANGED <<mcpTransports, mcpAppTransports, uuidCount>>
  /\ last' = [req |-> req, op |-> "POST", ep |-> ep, sid |-> sid,
              body |-> body, status |-> Delegated, t |-> Len(transport) + 1,
              threw |-> FALSE, closedBefore |-> FALSE]

\* mutant: an await between the lookup and transport.handleRequest
ReuseTransportDeferred(ep, sid, body, req, throws) ==
  /\ suspended' = suspended \cup
       {[req |-> req, ep |-> ep, t |-> Registry(ep)[sid], body |-> body]}
  /\ UNCHANGED <<mcpTransports, mcpAppTransports, transport, uuidCount>>
  /\ last' = [req |-> req, op |-> "POST", ep |-> ep, sid |-> sid,
              body |-> body, status |-> Delegated, t |-> Registry(ep)[sid],
              threw |-> FALSE, closedBefore |-> FALSE]

\* mutant: the id is generated and the transport registered when it is
\* constructed, before await server.connect
CreateTransportRegistered(ep, sid, body, req) ==
  /\ Len(transport) < MaxTransports
  /\ transport' = Append(transport,
                         [NewTransport(ep) EXCEPT !.sessionId = uuidCount + 1])
  /\ uuidCount' = uuidCount + 1
  /\ mcpTransports' = IF ep = "/mcp"
       THEN [k \in (DOMAIN mcpTransports) \cup {uuidCount + 1} |->
               IF k = uuidCount + 1 THEN Len(transport) + 1 ELSE mcpTransports[k]]
       ELSE mcpTransports
  /\ mcpAppTransports' = IF ep = "/mcp-app"
       THEN [k \in (DOMAIN mcpAppTransports) \cup {uuidCount + 1} |->
               IF k = uuidCount + 1 THEN Len(transport) + 1 ELSE mcpAppTransports[k]]
       ELSE mcpAppTransports
  /\ suspended' = suspended \cup
       {[req |-> req, ep |-> ep, t |-> Len(transport) + 1, body |-> body]}
  /\ last' = [req |-> req, op |-> "POST", ep |-> ep, sid |-> sid,
              body |-> body, status |-> Delegated, t |-> Len(transport) + 1,
              threw |-> FALSE, closedBefore |-> FALSE]

\* ------------------------------------------------------------ POST handler
\* sessionId && transports[sessionId]: reuse the registered transport and
\* hand it the request in the same synchronous step
\* (throws: handling the message raises an error inside handleRequest)
ReuseTransport(ep, sid, body, req, throws) ==
  LET t == Registry(ep)[sid]
  IN  /\ TransportHandlePost(t, body, req)
      /\ UNCHANGED suspended
      /\ last' = [req |-> req, op |-> "POST", ep |-> ep, sid |-> sid,
                  body |-> body, status |-> Delegated, t |-> t,
                  threw |-> throws, closedBefore |-> FALSE]

\* !sessionId && isInitializeRequest(req.body): construct the transport and
\* the server, then suspend at await server.connect(transport)
CreateTransport(ep, sid, body, req) ==
  LET t == Len(transport) + 1
  IN  /\ Len(transport) < MaxTransports
      /\ transport' = Append(transport, NewTransport(ep))
      /\ suspended' = suspended \cup {[req |-> req, ep |-> ep, t |-> t, body |-> body]}
      /\ UNCHANGED <<mcpTransports, mcpAppTransports, uuidCount>>
      /\ last' = [req |-> req, op |-> "POST", ep |-> ep, sid |-> sid,
                  body |-> body, status |-> Delegated, t |-> t,
                  threw |-> FALSE, closedBefore |-> FALSE]

\* res.status(400).json({ error: ... })
RejectPost(ep, sid, body, req) ==
  /\ UNCHANGED <<mcpTransports, mcpAppTransports, transport, suspended, uuidCount>>
  /\ last' = [req |-> req, op |-> "POST", ep |-> ep, sid |-> sid,
              body |-> body, status |-> BadRequest, t |-> 0, threw |-> FALSE, closedBefore |-> FALSE]

\* mutant: the new-session branch forgets to test !sessionId
PostAnyInitialize(ep, sid, body, throws) ==
  /\ requestCount < MaxRequests
  /\ UNCHANGED <<clientVars, libraryVars, widgetVars>>
  /\ requestCount' = requestCount + 1
  /\ IF sid # NoSessionId /\ sid \in DOMAIN Registry(ep)
       THEN /\ TransportHandlePost(Registry(ep)[sid], body, requestCount + 1)
            /\ UNCHANGED suspended
            /\ last' = [req |-> requestCount + 1, op |-> "POST", ep |-> ep,
                        sid |-> sid, body |-> body, status |-> Delegated,
                        t |-> Registry(ep)[sid], threw |-> throws,
                        closedBefore |-> FALSE]
       ELSE IF isInitializeRequest(body)
              THEN /\ Len(transport) < MaxTransports
                   /\ transport' = Append(transport, NewTransport(ep))
                   /\ suspended' = suspended \cup
                        {[req |-> requestCount + 1, ep |-> ep,
                          t |-> Len(transport) + 1, body |-> body]}
                   /\ UNCHANGED <<mcpTransports, mcpAppTransports, uuidCount>>
                   /\ last' = [req |-> requestCount + 1, op |-> "POST", ep |-> ep,
                               sid |-> sid, body |-> body, status |-> Delegated,
                               t |-> Len(transport) + 1, threw |-> FALSE,
                               closedBefore |-> FALSE]
              ELSE /\ UNCHANGED <<mcpTransports, mcpAppTransports, transport,
                                  suspended, uuidCount>>
                   /\ last' = [req |-> requestCount + 1, op |-> "POST", ep |-> ep,
                               sid |-> sid, body |-> body, status |-> BadRequest,
                               t |-> 0, threw |-> FALSE, closedBefore |-> FALSE]

\* app.post(ep): the handler up to its first await
Post(ep, sid, body, throws) ==
  /\ requestCount < MaxRequests
  /\ UNCHANGED <<clientVars, libraryVars, widgetVars>>
  /\ requestCount' = requestCount + 1
  /\ IF sid # NoSessionId /\ Registered(ep, sid)
       THEN ReuseTransport(ep, sid, body, requestCount + 1, throws)
       ELSE IF sid = NoSessionId /\ isInitializeRequest(body)
              THEN CreateTransport(ep, sid, body, requestCount + 1)
              ELSE RejectPost(ep, sid, body, requestCount + 1)

\* the continuation of a new session's POST after await server.connect:
\* await transport.handleRequest(req, res, req.body)
PostResume(r) ==
  /\ r \in suspended
  /\ suspended' = suspended \ {r}
  /\ TransportHandlePost(r.t, r.body, r.req)
  /\ UNCHANGED <<requestCount, clientVars, libraryVars, widgetVars>>
  /\ last' = [req |-> r.req, op |-> "POST-resume", ep |-> r.ep, sid |-> NoSessionId,
              body |-> r.body, status |-> Delegated, t |-> r.t, threw |-> FALSE, closedBefore |-> FALSE]

\* mutant: the /mcp-app handler looks the id up in the /mcp registry
SessionRequestOtherMap(ep, method, sid) ==
  /\ requestCount < MaxRequests
  /\ requestCount' = requestCount + 1
  /\ UNCHANGED <<suspended, uuidCount, clientVars, libraryVars, widgetVars>>
  /\ IF sid = NoSessionId \/ sid \notin DOMAIN mcpTransports
       THEN /\ UNCHANGED <<mcpTransports, mcpAppTransports, transport>>
            /\ last' = [req |-> requestCount + 1, op |-> method, ep |-> ep,
                        sid |-> sid, body |-> NoBody, status |-> NotFound,
                        t |-> 0, threw |-> FALSE, closedBefore |-> FALSE]
       ELSE /\ TransportHandleSession(mcpTransports[sid], method)
            /\ last' = [req |-> requestCount + 1, op |-> method, ep |-> ep,
                        sid |-> sid, body |-> NoBody, status |-> Delegated,
                        t |-> mcpTransports[sid], threw |-> FALSE,
                        closedBefore |-> transport[mcpTransports[sid]].closed]

\* ------------------------------------------------------ GET/DELETE handler
\* handleMcpSessionRequest / handleMcpAppSessionRequest
SessionRequest(ep, method, sid) ==
  /\ requestCount < MaxRequests
  /\ requestCount' = requestCount + 1
  /\ UNCHANGED <<suspended, uuidCount, clientVars, libraryVars, widgetVars>>
  /\ IF sid = NoSessionId \/ ~Registered(ep, sid)
       THEN /\ UNCHANGED <<mcpTransports, mcpAppTransports, transport>>
            /\ last' = [req |-> requestCount + 1, op |-> method, ep |-> ep,
                        sid |-> sid, body |-> NoBody, status |-> NotFound,
                        t |-> 0, threw |-> FALSE, closedBefore |-> FALSE]
       ELSE /\ TransportHandleSession(Registry(ep)[sid], method)
            /\ last' = [req |-> requestCount + 1, op |-> method, ep |-> ep,
                        sid |-> sid, body |-> NoBody, status |-> Delegated,
                        t |-> Registry(ep)[sid], threw |-> FALSE,
                        closedBefore |-> transport[Registry(ep)[sid]].closed]

\* the connection under a transport goes away (server.close(), transport.close())
ConnectionClose(t) ==
  /\ t \in DOMAIN transport
  /\ TransportClose(t)
  /\ UNCHANGED <<suspended, requestCount, uuidCount, clientVars, libraryVars, widgetVars>>
  /\ last' = [req |-> 0, op |-> "close", ep |-> transport[t].endpoint,
              sid |-> NoSessionId, body |-> NoBody, status |-> Delegated,
              t |-> t, threw |-> FALSE, closedBefore |-> transport[t].closed]

Next ==
  \/ \E ep \in Endpoints, sid \in HeaderValues, body \in Bodies, throws \in BOOLEAN :
       Post(ep, sid, body, throws)
  \/ \E r \in suspended : PostResume(r)
  \/ \E ep \in Endpoints, m \in {"GET", "DELETE"}, sid \in HeaderValues :
       SessionRequest(ep, m, sid)
  \/ \E t \in TransportIds : ConnectionClose(t)

Spec == Init /\ [][Next]_vars

\* ============================================================ McpUiClient
RequestMethods == {"ui/initialize", "ui/open-link", "tools/call"}

HostContextChanged == "ui/notifications/host-context-changed"
ToolInput == "ui/notifications/tool-input"
ToolInputPartial == "ui/notifications/tool-input-partial"
ToolResult == "ui/notifications/tool-result"

\* the error member of a response; NoError stands for a response without one
NoError == [code |-> 0, message |-> ""]
Denied == [code |-> -32000, message |-> "denied"]

\* the result member of a response: of ui/initialize its hostContext (Null
\* when the reply has none), of the other methods the result itself
Results == {Null, Obj("dark", "")}

\* the params member of a notification (Null: the notification has none); of
\* tool-input and tool-input-partial the object stands for params.arguments
Params == {Null, Obj("light", ""), Obj("", "en")}

\* what the host may put into a message event (event.data)
\* hasId: "id" in data; nullId: data.id === null; hasMethod: "method" in data
Responses ==
  [jsonrpc : {"2.0"}, hasId : {TRUE}, nullId : {FALSE}, id : 1..MaxSends,
   hasMethod : {FALSE}, method : {""}, error : {NoError, Denied}, payload : Results]
ContextNotifications ==
  [jsonrpc : {"2.0"}, hasId : {FALSE}, nullId : {FALSE}, id : {0}, hasMethod : {TRUE},
   method : {HostContextChanged}, error : {NoError}, payload : Params]
ToolNotifications ==
  [jsonrpc : {"2.0"}, hasId : {FALSE}, nullId : {FALSE}, id : {0}, hasMethod : {TRUE},
   method : {ToolInput, ToolInputPartial, ToolResult}, error : {NoError},
   payload : Params \cup Results]

\* event.data is null, undefined or another falsy value
NoData ==
  [jsonrpc |-> "", hasId |-> FALSE, nullId |-> FALSE, id |-> 0, hasMethod |-> FALSE,
   method |-> "", error |-> NoError, payload |-> Null]

\* traffic of other scripts: a response and a notification in all but the
\* jsonrpc member
ForeignData ==
  {NoData,
   [jsonrpc |-> "1.0", hasId |-> TRUE, nullId |-> FALSE, id |-> 1, hasMethod |-> FALSE,
    method |-> "", error |-> NoError, payload |-> Null],
   [jsonrpc |-> "1.0", hasId |-> FALSE, nullId |-> FALSE, id |-> 0, hasMethod |-> TRUE,
    method |-> ToolInput, error |-> NoError, payload |-> Obj("light", "")]}

\* enveloped messages that carry an id and a method (a request of the host),
\* a null id, or neither an id nor a method
OddMessages ==
  [jsonrpc : {"2.0"}, hasId : {TRUE}, nullId : {FALSE}, id : 1..MaxSends,
   hasMethod : {TRUE}, method : {ToolInput, ToolResult}, error : {NoError},
   payload : {Obj("light", "")}]
  \cup
  [jsonrpc : {"2.0"}, hasId : {TRUE}, nullId : {TRUE}, id : {0},
   hasMethod : BOOLEAN, method : {ToolInput}, error : {NoError},
   payload : {Obj("light", "")}]
  \cup
  [jsonrpc : {"2.0"}, hasId : {FALSE}, nullId : {FALSE}, id : {0},
   hasMethod : {FALSE}, method : {""}, error : {NoError}, payload : {Null}]
MessageData == Responses \cup ForeignData

\* mutant: this.requestId++ where ++this.requestId is meant
PostIncrement(n) == [value |-> n, variable |-> n + 1]

\* const id = ++this.requestId
PreIncrement(n) == [value |-> n + 1, variable |-> n + 1]

\* mutant: pendingRequests.clear() where delete(id) is meant
MapDeleteAll(map, key) == <<>>

\* mutant: the entry stays in the map
MapDeleteNothing(map, key) == map

\* pendingRequests.delete(id)
MapDelete(map, key) == [k \in (DOMAIN map) \ {key} |-> map[k]]

\* pendingRequests.set(id, value)
MapSet(map, key, value) ==
  [k \in (DOMAIN map) \cup {key} |-> IF k = key THEN value ELSE map[k]]

\* { ...a, ...b }: the keys of b win, the keys only a has are kept; spreading
\* null or undefined adds nothing
ShallowMerge(a, b) ==
  [present |-> TRUE,
   theme |-> IF b.present /\ b.theme # "" THEN b.theme
             ELSE IF a.present THEN a.theme ELSE "",
   locale |-> IF b.present /\ b.locale # "" THEN b.locale
              ELSE IF a.present THEN a.locale ELSE ""]

\* mutant: the rejection drops the remote code
RemoteErrorMessageOnly(error) == [message |-> error.message, code |-> 0]

\* new Error(`${response.error.message} (code: ${response.error.code})`)
RemoteError(error) == [message |-> error.message, code |-> error.code]

\* new Error(`Request timeout: ${method}`)
TimeoutError(method) == [message |-> "Request timeout", method |-> method]

\* new Error("Client destroyed")
DestroyedError == [message |-> "Client destroyed"]

\* resolve(...) or reject(...) of the promise that sendRequest call k returned
Settle(cs, k, outcome) == [cs EXCEPT ![k].outcome = Append(@, outcome)]

\* what the promise of call k was resolved with, or the Error it was rejected with
SettleWith(cs, k, outcome, value) ==
  [Settle(cs, k, outcome) EXCEPT ![k].value = Append(@, value)]

\* the body of sendRequest(method, params)
sendRequest(method) ==
  LET inc == PreIncrement(requestId)
      id == inc.value
      k == Len(calls) + 1
  IN  /\ requestId' = inc.variable
      /\ calls' = Append(calls, [id |-> id, method |-> method, outcome |-> <<>>,
                                 value |-> <<>>])
      /\ timers' = timers \cup {k}
      /\ pendingRequests' = MapSet(pendingRequests, id, k)
      /\ posted' = Append(posted, [kind |-> "request", id |-> id, method |-> method])

\* sendRequest(method, params) as called by initialize(), openLink() and callTool()
SendRequest(method) ==
  /\ Len(calls) < MaxSends
  /\ sendRequest(method)
  /\ event' = [op |-> "sendRequest", id |-> requestId', k |-> Len(calls')]
  /\ UNCHANGED <<listening, initialized, hostContext, toolArguments, toolResult,
                 notificationHandlers, initPromise, state, serverVars, libraryVars, widgetVars>>

\* mutant: a reply without hostContext leaves the cached one in place
ResolvedKeepingContext(k, result) ==
  IF calls[k].method = "ui/initialize"
    THEN /\ initialized' = TRUE
         /\ hostContext' = IF result.present THEN result ELSE hostContext
         /\ posted' = Append(posted, [kind |-> "notification", id |-> 0,
                                      method |-> "ui/notifications/initialized"])
         /\ state' = IF initPromise = k
                       THEN [state EXCEPT !.initialized = TRUE,
                                          !.hostContext = result, !.error = "null"]
                       ELSE state
    ELSE UNCHANGED <<initialized, hostContext, posted, state>>

\* mutant: a notification that takes the next request id
sendNotificationWithId(method) ==
  posted' = Append(posted, [kind |-> "notification", id |-> requestId + 1,
                            method |-> method])

\* sendNotification(method, params): the message has no id member (id 0 here)
sendNotification(method) ==
  posted' = Append(posted, [kind |-> "notification", id |-> 0, method |-> method])

\* what runs once the promise of call k is resolved with result: the rest of
\* McpUiClient.initialize() and then the rest of McpUiStore.doInitialize()
Resolved(k, result) ==
  IF calls[k].method = "ui/initialize"
    THEN /\ initialized' = TRUE
         /\ hostContext' = result
         /\ sendNotification("ui/notifications/initialized")
         /\ state' = IF initPromise = k
                       THEN [state EXCEPT !.initialized = TRUE,
                                          !.hostContext = result, !.error = "null"]
                       ELSE state
    ELSE UNCHANGED <<initialized, hostContext, posted, state>>

\* mutant: the catch of doInitialize() reports the store as initialized
RejectedInitialized(ks, error) ==
  state' = IF initPromise \in ks
             THEN [state EXCEPT !.error = error, !.initialized = TRUE]
             ELSE state

\* what runs once promises are rejected: the catch of McpUiStore.doInitialize()
Rejected(ks, error) ==
  state' = IF initPromise \in ks THEN [state EXCEPT !.error = error] ELSE state

\* handleResponse(response)
HandleResponse(response) ==
  IF response.id \notin DOMAIN pendingRequests
    THEN /\ event' = [op |-> "unknown-response", id |-> response.id, k |-> 0]
         /\ UNCHANGED <<pendingRequests, timers, calls, initialized, hostContext,
                        posted, state>>
    ELSE LET k == pendingRequests[response.id]
         IN  /\ pendingRequests' = MapDelete(pendingRequests, response.id)
             /\ timers' = timers \ {k}
             /\ event' = [op |-> "response", id |-> response.id, k |-> k]
             /\ IF response.error # NoError
                  THEN /\ calls' = SettleWith(calls, k, "rejected-remote",
                                              RemoteError(response.error))
                       /\ Rejected({k}, "remote")
                       /\ UNCHANGED <<initialized, hostContext, posted>>
                  ELSE /\ calls' = SettleWith(calls, k, "resolved", response.payload)
                       /\ Resolved(k, response.payload)

\* mutant: a partial tool input replaces the arguments held so far
StoreHandlerReplacing(method, params) ==
  CASE method \in {ToolInput, ToolInputPartial} ->
         IF params.present THEN [state EXCEPT !.toolArguments = params] ELSE state
    [] method = ToolResult -> [state EXCEPT !.toolResult = params]
    [] method = HostContextChanged ->
         [state EXCEPT !.hostContext = ShallowMerge(@, params)]
    [] OTHER -> state

\* the store's handlers, registered by doInitialize
StoreHandler(method, params) ==
  CASE method = ToolInput ->
         \* params.arguments throws when there are no params; handleNotification
         \* catches it
         IF params.present THEN [state EXCEPT !.toolArguments = params] ELSE state
    [] method = ToolInputPartial ->
         IF params.present
           THEN [state EXCEPT !.toolArguments = ShallowMerge(@, params)]
           ELSE state
    [] method = ToolResult -> [state EXCEPT !.toolResult = params]
    [] method = HostContextChanged ->
         [state EXCEPT !.hostContext = ShallowMerge(@, params)]
    [] OTHER -> state

\* subscribers whose handler throws whenever it is called
ThrowingHandlers == {"h2"}

\* handler(notification.params) throws: a subscriber that always does, or the
\* store's tool-input handlers reading params.arguments of undefined params
Throws(handler, method, params) ==
  \/ handler \in ThrowingHandlers
  \/ handler = "store" /\ method \in {ToolInput, ToolInputPartial} /\ ~params.present

\* mutant: handlers.forEach without the try/catch around each call
ForEachHandlerUncaught(handlers, method, params) ==
  LET throwing == {h \in handlers : Throws(h, method, params)}
  IN  IF throwing = {}
        THEN [invoked |-> handlers, caught |-> {}, escaped |-> FALSE]
        ELSE [invoked |-> throwing, caught |-> {}, escaped |-> TRUE]

\* handlers.forEach((handler) => { try { handler(params) } catch { log } }):
\* the handlers called, the ones whose exception was caught, and whether an
\* exception left handleNotification
ForEachHandler(handlers, method, params) ==
  [invoked |-> handlers,
   caught |-> {h \in handlers : Throws(h, method, params)},
   escaped |-> FALSE]

\* handleNotification(notification)
HandleNotification(notification) ==
  LET method == notification.method
      params == notification.payload
      handlers == IF method \in DOMAIN notificationHandlers
                    THEN notificationHandlers[method] ELSE {}
      called == ForEachHandler(handlers, method, params)
  IN  /\ toolArguments' = IF method = ToolInput THEN params ELSE toolArguments
      /\ toolResult' = IF method = ToolResult THEN params ELSE toolResult
      /\ hostContext' = IF method = HostContextChanged /\ hostContext.present
                           /\ params.present
                          THEN ShallowMerge(hostContext, params)
                          ELSE hostContext
      /\ state' = IF "store" \in called.invoked
                    THEN StoreHandler(method, params) ELSE state
      /\ event' = [op |-> "notification", id |-> 0, k |-> 0, method |-> method,
                   invoked |-> called.invoked, caught |-> called.caught,
                   escaped |-> called.escaped]

\* mutant: the envelope check forgets the jsonrpc member
ClassifyAnyVersion(data) ==
  IF data = NoData THEN "ignored"
  ELSE IF data.hasId /\ ~data.nullId THEN "response"
  ELSE IF data.hasMethod /\ ~data.hasId THEN "notification"
  ELSE "unclassified"

\* mutant: whatever has a method is a notification
ClassifyMethodFirst(data) ==
  IF data = NoData \/ data.jsonrpc # "2.0" THEN "ignored"
  ELSE IF data.hasMethod THEN "notification"
  ELSE IF data.hasId /\ ~data.nullId THEN "response"
  ELSE "unclassified"

\* the tests of handleMessage, in their order
Classify(data) ==
  IF data = NoData \/ data.jsonrpc # "2.0" THEN "ignored"
  ELSE IF data.hasId /\ ~data.nullId THEN "response"
  ELSE IF data.hasMethod /\ ~data.hasId THEN "notification"
  ELSE "unclassified"

\* handleMessage(event): the window "message" listener
HandleMessage(data) ==
  /\ listening
  /\ CASE Classify(data) = "response" ->
            /\ HandleResponse(data)
            /\ UNCHANGED <<toolArguments, toolResult>>
       [] Classify(data) = "notification" ->
            /\ HandleNotification(data)
            /\ UNCHANGED <<pendingRequests, timers, calls, initialized, posted>>
       [] OTHER ->
            /\ event' = [op |-> Classify(data), id |-> 0, k |-> 0]
            /\ UNCHANGED <<pendingRequests, timers, calls, initialized, hostContext,
                           toolArguments, toolResult, posted, state>>
  /\ UNCHANGED <<requestId, listening, notificationHandlers, initPromise, serverVars, libraryVars, widgetVars>>

\* mutant: the timer runs out without telling anyone
TimeoutFiresUnnoticed(k) ==
  /\ k \in timers
  /\ timers' = timers \ {k}
  /\ event' = [op |-> "timeout", id |-> calls[k].id, k |-> k]
  /\ UNCHANGED <<requestId, pendingRequests, calls, posted, listening, initialized,
                 hostContext, toolArguments, toolResult, notificationHandlers,
                 initPromise, state, serverVars, libraryVars, widgetVars>>

\* the setTimeout callback of sendRequest call k
TimeoutFires(k) ==
  /\ k \in timers
  /\ timers' = timers \ {k}
  /\ pendingRequests' = MapDelete(pendingRequests, calls[k].id)
  /\ calls' = SettleWith(calls, k, "rejected-timeout", TimeoutError(calls[k].method))
  /\ Rejected({k}, "timeout")
  /\ event' = [op |-> "timeout", id |-> calls[k].id, k |-> k]
  /\ UNCHANGED <<requestId, posted, listening, initialized, hostContext,
                 toolArguments, toolResult, notificationHandlers, initPromise,
                 serverVars, libraryVars, widgetVars>>

\* mutant: destroy() without clearTimeout and without clearing the subscriptions
DestroyRejectsOnly ==
  LET ks == {pendingRequests[id] : id \in DOMAIN pendingRequests}
  IN  /\ listening' = FALSE
      /\ calls' = [k \in DOMAIN calls |->
                    IF k \in ks
                      THEN [calls[k] EXCEPT
                              !.outcome = Append(@, "rejected-destroyed"),
                              !.value = Append(@, DestroyedError)]
                      ELSE calls[k]]
      /\ pendingRequests' = <<>>
      /\ Rejected(ks, "destroyed")
      /\ event' = [op |-> "destroy", id |-> 0, k |-> 0]
      /\ UNCHANGED <<requestId, posted, initialized, hostContext, toolArguments,
                     toolResult, initPromise, timers, notificationHandlers,
                     serverVars, libraryVars, widgetVars>>

\* mutant: destroy() without window.removeEventListener
DestroyKeepsListener ==
  LET ks == {pendingRequests[id] : id \in DOMAIN pendingRequests}
  IN  /\ timers' = timers \ ks
      /\ calls' = [k \in DOMAIN calls |->
                    IF k \in ks
                      THEN [calls[k] EXCEPT
                              !.outcome = Append(@, "rejected-destroyed"),
                              !.value = Append(@, DestroyedError)]
                      ELSE calls[k]]
      /\ pendingRequests' = <<>>
      /\ notificationHandlers' = <<>>
      /\ Rejected(ks, "destroyed")
      /\ event' = [op |-> "destroy", id |-> 0, k |-> 0]
      /\ UNCHANGED <<requestId, posted, initialized, hostContext, toolArguments,
                     toolResult, initPromise, listening, serverVars, libraryVars, widgetVars>>

\* the body of destroy()
destroy ==
  LET ks == {pendingRequests[id] : id \in DOMAIN pendingRequests}
  IN  /\ listening' = FALSE
      /\ timers' = timers \ ks
      /\ calls' = [k \in DOMAIN calls |->
                    IF k \in ks
                      THEN [calls[k] EXCEPT
                              !.outcome = Append(@, "rejected-destroyed"),
                              !.value = Append(@, DestroyedError)]
                      ELSE calls[k]]
      /\ pendingRequests' = <<>>
      /\ notificationHandlers' = <<>>
      /\ Rejected(ks, "destroyed")

\* destroy()
Destroy ==
      /\ destroy
      /\ event' = [op |-> "destroy", id |-> 0, k |-> 0]
      /\ UNCHANGED <<requestId, posted, initialized, hostContext, toolArguments,
                     toolResult, initPromise, serverVars, libraryVars, widgetVars>>

\* onNotification(method, handler)
OnNotification(method, handler) ==
  /\ notificationHandlers' =
       MapSet(notificationHandlers, method,
              (IF method \in DOMAIN notificationHandlers
                 THEN notificationHandlers[method] ELSE {}) \cup {handler})
  /\ event' = [op |-> "onNotification", id |-> 0, k |-> 0, method |-> method,
               handler |-> handler]
  /\ UNCHANGED <<requestId, pendingRequests, timers, calls, posted, listening,
                 initialized, hostContext, toolArguments, toolResult, initPromise,
                 state, serverVars, libraryVars, widgetVars>>

SizeChanged == "ui/notifications/size-changed"

\* notifySizeChanged(width, height), as useSizeNotifier calls it
NotifySizeChanged ==
  /\ Len(SelectSeq(posted, LAMBDA m : m.method = SizeChanged)) < MaxSizeChanges
  /\ sendNotification(SizeChanged)
  /\ event' = [op |-> "notifySizeChanged", id |-> 0, k |-> 0]
  /\ UNCHANGED <<requestId, pendingRequests, timers, calls, listening, initialized,
                 hostContext, toolArguments, toolResult, notificationHandlers,
                 initPromise, state, serverVars, libraryVars, widgetVars>>

\* mutant: the unsubscribe function drops every handler of the method
UnsubscribeAll(method, handler) ==
  /\ notificationHandlers' =
       IF method \in DOMAIN notificationHandlers
         THEN MapSet(notificationHandlers, method, {})
         ELSE notificationHandlers
  /\ event' = [op |-> "unsubscribe", id |-> 0, k |-> 0, method |-> method,
               handler |-> handler]
  /\ UNCHANGED <<requestId, pendingRequests, timers, calls, posted, listening,
                 initialized, hostContext, toolArguments, toolResult, initPromise,
                 state, serverVars, libraryVars, widgetVars>>

\* the function onNotification(method, handler) returned:
\* this.notificationHandlers.get(method)?.delete(handler)
Unsubscribe(method, handler) ==
  /\ notificationHandlers' =
       IF method \in DOMAIN notificationHandlers
         THEN MapSet(notificationHandlers, method,
                     notificationHandlers[method] \ {handler})
         ELSE notificationHandlers
  /\ event' = [op |-> "unsubscribe", id |-> 0, k |-> 0, method |-> method,
               handler |-> handler]
  /\ UNCHANGED <<requestId, pendingRequests, timers, calls, posted, listening,
                 initialized, hostContext, toolArguments, toolResult, initPromise,
                 state, serverVars, libraryVars, widgetVars>>

\* ============================================================= McpUiStore
\* the four subscriptions doInitialize makes before it calls client.initialize()
StoreSubscribed(handlers) ==
  [m \in (DOMAIN handlers) \cup {ToolInput, ToolInputPartial, ToolResult,
                                 HostContextChanged} |->
     IF m \in {ToolInput, ToolInputPartial, ToolResult, HostContextChanged}
       THEN (IF m \in DOMAIN handlers THEN handlers[m] ELSE {}) \cup {"store"}
       ELSE handlers[m]]

\* mutant: initialize() without the initPromise memo
StoreInitializeAgain ==
  /\ Len(calls) < MaxSends
  /\ initPromise' = Len(calls) + 1
  /\ notificationHandlers' = StoreSubscribed(notificationHandlers)
  /\ sendRequest("ui/initialize")
  /\ event' = [op |-> "store.initialize", id |-> requestId', k |-> initPromise']
  /\ UNCHANGED <<listening, initialized, hostContext, toolArguments, toolResult,
                 state, serverVars, libraryVars, widgetVars>>

\* mutant: initialize() starts over when the first initialization has failed
StoreInitializeRetrying ==
  IF (initPromise # 0 /\ state.error = "null") \/ state.initialized
    THEN /\ event' = [op |-> "store.initialize", id |-> 0, k |-> initPromise]
         /\ UNCHANGED <<requestId, pendingRequests, timers, calls, posted, listening,
                        initialized, hostContext, toolArguments, toolResult,
                        notificationHandlers, initPromise, state, serverVars, libraryVars, widgetVars>>
    ELSE /\ Len(calls) < MaxSends
         /\ initPromise' = Len(calls) + 1
         /\ notificationHandlers' = StoreSubscribed(notificationHandlers)
         /\ sendRequest("ui/initialize")
         /\ event' = [op |-> "store.initialize", id |-> requestId', k |-> initPromise']
         /\ UNCHANGED <<listening, initialized, hostContext, toolArguments,
                        toolResult, state, serverVars, libraryVars, widgetVars>>

\* McpUiStore.initialize(options), as useMcpUi calls it from every component
StoreInitialize ==
  IF initPromise # 0 \/ state.initialized
    THEN /\ event' = [op |-> "store.initialize", id |-> 0, k |-> initPromise]
         /\ UNCHANGED <<requestId, pendingRequests, timers, calls, posted, listening,
                        initialized, hostContext, toolArguments, toolResult,
                        notificationHandlers, initPromise, state, serverVars, libraryVars, widgetVars>>
    ELSE /\ Len(calls) < MaxSends
         /\ initPromise' = Len(calls) + 1
         /\ notificationHandlers' = StoreSubscribed(notificationHandlers)
         /\ sendRequest("ui/initialize")
         /\ event' = [op |-> "store.initialize", id |-> requestId', k |-> initPromise']
         /\ UNCHANGED <<listening, initialized, hostContext, toolArguments,
                        toolResult, state, serverVars, libraryVars, widgetVars>>

\* ------------------------------------------------- the request correlator
Handlers == {"h1"}

ClientNext ==
  \/ \E method \in RequestMethods : SendRequest(method)
  \/ \E data \in MessageData : HandleMessage(data)
  \/ \E k \in 1..MaxSends : TimeoutFires(k)
  \/ \E handler \in Handlers : OnNotification(ToolResult, handler)
  \/ Destroy

ClientSpec == Init /\ [][ClientNext]_vars

\* ------------------------------------------------------------ the handshake
\* the widget's components call store.initialize(), other code calls
\* client.initialize() itself, and the host answers and announces context changes
HandshakeNext ==
  \/ StoreInitialize
  \/ SendRequest("ui/initialize")
  \/ \E data \in Responses \cup ContextNotifications : HandleMessage(data)
  \/ \E k \in 1..MaxSends : TimeoutFires(k)
  \/ Destroy

HandshakeSpec == Init /\ [][HandshakeNext]_vars

\* ------------------------------------------------------- inbound dispatch
Subscribers == Handlers \cup ThrowingHandlers

DispatchData ==
  {r \in Responses : r.payload = Null} \cup ForeignData \cup OddMessages
  \cup {n \in ToolNotifications :
          n.method \in {ToolInput, ToolResult} /\ n.payload \in {Null, Obj("light", "")}}

\* widget code subscribes and unsubscribes and calls a tool while the host
\* and other scripts post messages to the window
DispatchNext ==
  \/ \E method \in {ToolInput, ToolResult}, handler \in Subscribers :
       OnNotification(method, handler)
  \/ \E method \in {ToolInput, ToolResult}, handler \in Subscribers :
       Unsubscribe(method, handler)
  \/ SendRequest("tools/call")
  \/ \E data \in DispatchData : HandleMessage(data)
  \/ Destroy

DispatchSpec == Init /\ [][DispatchNext]_vars

\* one subscriber and the requests of the widget against every kind of message
RoutingNext ==
  \/ OnNotification(ToolInput, "h1")
  \/ SendRequest("tools/call")
  \/ \E data \in DispatchData : HandleMessage(data)

RoutingSpec == Init /\ [][RoutingNext]_vars

\* ------------------------------------------------- outbound notifications
\* the widget initializes, reports its size and calls a tool; the host answers
NotifyNext ==
  \/ \E method \in {"ui/initialize", "tools/call"} : SendRequest(method)
  \/ \E data \in {r \in Responses : r.payload = Null} : HandleMessage(data)
  \/ NotifySizeChanged

NotifySpec == Init /\ [][NotifyNext]_vars

\* ------------------------------------------------------------- teardown
\* the window dispatches a message event: handleMessage runs while it is
\* attached as the "message" listener, and nothing runs otherwise
WindowMessage(data) ==
  IF listening
    THEN HandleMessage(data)
    ELSE /\ event' = [op |-> "undelivered", id |-> 0, k |-> 0]
         /\ UNCHANGED <<requestId, pendingRequests, timers, calls, posted, listening,
                        initialized, hostContext, toolArguments, toolResult,
                        notificationHandlers, initPromise, state, serverVars,
                        libraryVars, widgetVars>>

TeardownData ==
  {r \in Responses : r.error = NoError} \cup
  {n \in ToolNotifications : n.method \in {ToolInput, ToolResult}
                             /\ n.payload = Obj("light", "")} \cup
  {n \in ContextNotifications : n.payload = Obj("light", "")}

\* a client that is used, destroyed and still reached by the host's messages
TeardownNext ==
  \/ \E method \in {"ui/initialize", "tools/call"} : SendRequest(method)
  \/ \E handler \in Handlers : OnNotification(ToolResult, handler)
  \/ \E data \in TeardownData : WindowMessage(data)
  \/ Destroy

TeardownSpec == Init /\ [][TeardownNext]_vars

\* ------------------------------------------------------------ the singleton
\* the options a caller may pass to getMcpUiClient
Options == {NoOptions, "debug"}

\* mutant: every call constructs a client
getMcpUiClientAnew(options) ==
  /\ constructed < MaxInstances
  /\ constructed' = constructed + 1
  /\ clientInstance' = constructed + 1
  /\ clientOptions' = options
  /\ requestId' = 0
  /\ pendingRequests' = <<>>
  /\ notificationHandlers' = <<>>
  /\ initialized' = FALSE
  /\ hostContext' = Null
  /\ toolArguments' = Null
  /\ toolResult' = Null
  /\ listening' = TRUE
  /\ UNCHANGED <<timers, calls, posted, initPromise, state>>

\* getMcpUiClient(options): new McpUiClient(options) when there is no
\* instance (the constructor initializes the fields and attaches the message
\* listener), the instance there is otherwise
getMcpUiClient(options) ==
  IF clientInstance = 0
    THEN /\ constructed < MaxInstances
         /\ constructed' = constructed + 1
         /\ clientInstance' = constructed + 1
         /\ clientOptions' = options
         /\ requestId' = 0
         /\ pendingRequests' = <<>>
         /\ notificationHandlers' = <<>>
         /\ initialized' = FALSE
         /\ hostContext' = Null
         /\ toolArguments' = Null
         /\ toolResult' = Null
         /\ listening' = TRUE
         /\ UNCHANGED <<timers, calls, posted, initPromise, state>>
    ELSE UNCHANGED <<constructed, clientInstance, clientOptions, requestId,
                     pendingRequests, notificationHandlers, initialized, hostContext,
                     toolArguments, toolResult, listening, timers, calls, posted,
                     initPromise, state>>

GetMcpUiClient(options) ==
  /\ getMcpUiClient(options)
  /\ event' = [op |-> "getMcpUiClient", id |-> clientInstance', k |-> 0]
  /\ UNCHANGED <<timeoutRef, lastSizeRef, reported, sizesSent, serverVars, libraryVars>>

\* resetMcpUiClient(): if (clientInstance) { clientInstance.destroy(); clientInstance = null }
resetMcpUiClient ==
  IF clientInstance # 0
    THEN /\ destroy
         /\ clientInstance' = 0
    ELSE UNCHANGED <<clientInstance, listening, timers, calls, pendingRequests,
                     notificationHandlers, state>>

ResetMcpUiClient ==
  /\ resetMcpUiClient
  /\ event' = [op |-> "resetMcpUiClient", id |-> clientInstance, k |-> 0]
  /\ UNCHANGED <<constructed, clientOptions, requestId, initialized, hostContext,
                 toolArguments, toolResult, posted, initPromise, timeoutRef,
                 lastSizeRef, reported, sizesSent, serverVars, libraryVars>>

\* getMcpUiClient().callTool(...)
CallTool ==
  /\ clientInstance # 0
  /\ SendRequest("tools/call")

\* the module as loaded: no instance has been constructed
SingletonInit ==
  /\ requestId = 0
  /\ pendingRequests = <<>>
  /\ timers = {}
  /\ calls = <<>>
  /\ posted = <<>>
  /\ listening = FALSE
  /\ initialized = FALSE
  /\ hostContext = Null
  /\ toolArguments = Null
  /\ toolResult = Null
  /\ notificationHandlers = <<>>
  /\ event = NoEvent
  /\ initPromise = 0
  /\ state = [initialized |-> FALSE, hostContext |-> Null, toolArguments |-> Null,
              toolResult |-> Null, error |-> "null"]
  /\ clientInstance = 0
  /\ constructed = 0
  /\ clientOptions = NoOptions
  /\ NotifierInit
  /\ ServerInit
  /\ LibraryInit

SingletonNext ==
  \/ \E options \in Options : GetMcpUiClient(options)
  \/ ResetMcpUiClient
  \/ CallTool
  \/ \E handler \in Handlers : clientInstance # 0 /\ OnNotification(ToolResult, handler)
  \/ \E data \in {r \in Responses : r.payload = Null /\ r.error = NoError} :
       WindowMessage(data)

SingletonSpec == SingletonInit /\ [][SingletonNext]_vars

\* -------------------------------------------------------- useSizeNotifier
\* the sizes the component measures
Sizes == {[width |-> 300, height |-> 200], [width |-> 300, height |-> 400]}

\* store.getClient(): the client doInitialize() obtained, null before it ran
StoreHasClient == initPromise # 0

\* the callback useSizeNotifier returns: a size equal to lastSizeRef returns
\* at once; any other clears the pending timeout and arms a new one
ReportSize(size) ==
  /\ Len(reported) < MaxReports
  /\ reported' = Append(reported, size)
  /\ timeoutRef' =
       IF /\ lastSizeRef # NoSize
          /\ lastSizeRef.width = size.width
          /\ lastSizeRef.height = size.height
         THEN timeoutRef
         ELSE [armed |-> TRUE, size |-> size, client |-> StoreHasClient]
  /\ event' = [op |-> "reportSize", id |-> 0, k |-> Len(reported')]
  /\ UNCHANGED <<requestId, pendingRequests, timers, calls, posted, listening,
                 initialized, hostContext, toolArguments, toolResult,
                 notificationHandlers, initPromise, state, lastSizeRef, sizesSent,
                 clientInstance, constructed, clientOptions, serverVars, libraryVars>>

\* the debounce timer runs out: lastSizeRef.current = { width, height } and
\* client?.notifySizeChanged(width, height)
DebounceFires ==
  /\ timeoutRef.armed
  /\ timeoutRef' = [timeoutRef EXCEPT !.armed = FALSE]
  /\ lastSizeRef' = timeoutRef.size
  /\ IF timeoutRef.client
       THEN /\ sendNotification(SizeChanged)
            /\ sizesSent' = Append(sizesSent, timeoutRef.size)
       ELSE UNCHANGED <<posted, sizesSent>>
  /\ event' = [op |-> "debounce", id |-> 0, k |-> 0]
  /\ UNCHANGED <<requestId, pendingRequests, timers, calls, listening,
                 initialized, hostContext, toolArguments, toolResult,
                 notificationHandlers, initPromise, state, reported,
                 clientInstance, constructed, clientOptions, serverVars, libraryVars>>

\* a component that initializes the store and reports its size as it changes
SizeNext ==
  \/ StoreInitialize
  \/ \E size \in Sizes : ReportSize(size)
  \/ DebounceFires

\* an armed timeout fires
SizeSpec == Init /\ [][SizeNext]_vars /\ WF_vars(DebounceFires)

\* --------------------------------------------------- streamed tool input
ToolInputData ==
  {n \in ToolNotifications : n.method \in {ToolInput, ToolInputPartial}}

\* the store initializes and the host streams the tool input
ToolInputNext ==
  \/ StoreInitialize
  \/ \E data \in ToolInputData \cup {r \in Responses : r.payload = Null} :
       HandleMessage(data)

ToolInputSpec == Init /\ [][ToolInputNext]_vars

\* setTimeout: an armed timer that is not cleared fires
ClientFairSpec ==
  Init /\ [][ClientNext]_vars /\ \A k \in 1..MaxSends : WF_vars(TimeoutFires(k))

\* ======================================================== the MCP servers
\* ------------------------------------------------------ widget asset loaders
\* readFileSync(path, "utf-8"): throws when the file is missing or unreadable
readFileSync(file) ==
  [threw |-> ~file.readable, value |-> IF file.readable THEN file.markup ELSE NullHtml]

\* the fallback document of the catch block
DevModeHtml ==
  "<p>Widget assets not found, using dev mode HTML. Run 'npm run build:widgets' first.</p>"

\* if (widgetHtmlCache): null and the empty string are falsy
Truthy(html) == html \notin {NullHtml, ""}

\* loadWidgetHtml() of mcp-server.ts: the cached markup, else the built
\* bubble-wrap file (found by readdirSync, read and cached), else the fallback
loadWidgetHtml ==
  IF Truthy(widgetHtmlCache)
    THEN [threw |-> FALSE, html |-> widgetHtmlCache, cache |-> widgetHtmlCache]
    ELSE LET read == readFileSync(assets["bubble-wrap"])
         IN  IF read.threw
               THEN [threw |-> FALSE, html |-> DevModeHtml, cache |-> widgetHtmlCache]
               ELSE [threw |-> FALSE, html |-> read.value, cache |-> read.value]

\* a caller of mcp-server.ts (the template resource, the tool) loads the widget
LoadBubbleWrapHtml ==
  /\ loaded' = [loader |-> "mcp-server.ts", widgetName |-> "bubble-wrap",
                called |-> TRUE, threw |-> loadWidgetHtml.threw,
                html |-> loadWidgetHtml.html]
  /\ widgetHtmlCache' = loadWidgetHtml.cache
  /\ UNCHANGED <<toolCall, assets, detection, serverVars, clientVars, widgetVars>>

\* loadWidgetHtml(widgetName) of utils/load-widget-html.ts, called by the
\* resource callbacks of mcp-server-sep1865.ts
LoadWidgetHtml(widgetName) ==
  LET read == readFileSync(assets[widgetName])
  IN  /\ loaded' = [loader |-> "utils/load-widget-html.ts", widgetName |-> widgetName,
                    called |-> TRUE, threw |-> read.threw, html |-> read.value]
      /\ UNCHANGED <<toolCall, assets, widgetHtmlCache, detection, serverVars, clientVars, widgetVars>>

\* the assets directory as the build left it
LoaderInit ==
  /\ ClientInit
  /\ ServerInit
  /\ WidgetInit
  /\ toolCall = NoToolCall
  /\ assets \in [Widgets -> Files]
  /\ widgetHtmlCache = NullHtml
  /\ loaded = NoLoad
  /\ detection = NoDetection

LoaderNext ==
  \/ LoadBubbleWrapHtml
  \/ \E widgetName \in Widgets : LoadWidgetHtml(widgetName)

LoaderSpec == LoaderInit /\ [][LoaderNext]_vars

\* ------------------------------------------------------ the bubble_wrap tool
\* bubbleCount < n and bubbleCount > n for an integer n
LessThan(x, n) == x.whole < n
GreaterThan(x, n) == x.whole > n \/ (x.whole = n /\ x.half = 1)

\* mutant: rounding up
MathCeil(x) == x.whole + x.half

\* Math.floor
MathFloor(x) == x.whole

Min(a, b) == IF a < b THEN a ELSE b
Max(a, b) == IF a > b THEN a ELSE b

OutOfRange == "Bubble count must be between 1 and 500"

\* inputSchema.bubbleCount parsed by zod: z.number() requires a number;
\* mcp/server.ts makes it optional with a default and refines the range
ParseInput(server, bubbleCount) ==
  IF server = "mcp/server.ts"
    THEN LET val == IF bubbleCount.given THEN bubbleCount
                    ELSE Number(DefaultBubbleCount, 0)
         IN  IF ~LessThan(val, MinBubbleCount) /\ ~GreaterThan(val, MaxBubbleCount)
               THEN [success |-> TRUE, data |-> val, message |-> ""]
               ELSE [success |-> FALSE, data |-> val, message |-> OutOfRange]
    ELSE IF bubbleCount.given
           THEN [success |-> TRUE, data |-> bubbleCount, message |-> ""]
           ELSE [success |-> FALSE, data |-> bubbleCount, message |-> "Required"]

\* the tool callbacks: ({ bubbleCount = 100 }) => ... ; mcp-server.ts and
\* mcp-server-sep1865.ts throw outside 1..500, all three clamp the floor
BubbleWrapHandler(server, args) ==
  LET bubbleCount == IF args.given THEN args ELSE Number(DefaultBubbleCount, 0)
      validBubbleCount ==
        Min(Max(MathFloor(bubbleCount), MinBubbleCount), MaxBubbleCount)
  IN  IF /\ server # "mcp/server.ts"
         /\ (LessThan(bubbleCount, MinBubbleCount) \/ GreaterThan(bubbleCount, MaxBubbleCount))
        THEN Thrown("handler", OutOfRange)
        ELSE Returned(validBubbleCount)

\* tools/call of bubble_wrap: the arguments are parsed against the input
\* schema and the callback runs on the parsed value; the callback of
\* mcp-server.ts embeds the widget markup in the result
CallBubbleWrap ==
  LET parsed == ParseInput(toolCall.server, toolCall.bubbleCount)
      result == IF parsed.success
                  THEN BubbleWrapHandler(toolCall.server, parsed.data)
                  ELSE Thrown("schema", parsed.message)
      loads == toolCall.server = "mcp-server.ts" /\ ~result.threw
  IN  /\ ~toolCall.done
      /\ toolCall' = [toolCall EXCEPT !.done = TRUE, !.result = result]
      /\ loaded' = IF loads
           THEN [loader |-> "mcp-server.ts", widgetName |-> "bubble-wrap",
                 called |-> TRUE, threw |-> loadWidgetHtml.threw,
                 html |-> loadWidgetHtml.html]
           ELSE loaded
      /\ widgetHtmlCache' = IF loads THEN loadWidgetHtml.cache ELSE widgetHtmlCache
      /\ UNCHANGED <<assets, detection, serverVars, clientVars, widgetVars>>

\* the bubble counts tried: absent, and every integer and integer and a half
\* from below the range to above it
BubbleCounts ==
  {NoNumber} \cup
  {Number(whole, half) : whole \in (MinBubbleCount - Margin)..(MaxBubbleCount + Margin),
                         half \in {0, 1}}

ToolInit ==
  /\ ClientInit
  /\ ServerInit
  /\ WidgetInit
  /\ toolCall \in [server : ToolServers, bubbleCount : BubbleCounts,
                   done : {FALSE}, result : {NoResult}]
  /\ assets \in [Widgets -> {Missing, File("<p>pop</p>")}]
  /\ widgetHtmlCache = NullHtml
  /\ loaded = NoLoad
  /\ detection = NoDetection

ToolNext == CallBubbleWrap

ToolSpec == ToolInit /\ [][ToolNext]_vars

\* ----------------------------------------------------- capability detection
MCP_APPS_MIME_TYPE == "text/html;profile=mcp-app"

\* the entry under MCP_APPS_EXTENSION_ID of capabilities.extensions or
\* capabilities.experimental: absent, without mimeTypes, or with a list
MimeTypes == {MCP_APPS_MIME_TYPE, "text/html"}
Entries ==
  {NoEntry, [present |-> TRUE, hasMimeTypes |-> FALSE, mimeTypes |-> {}]} \cup
  {[present |-> TRUE, hasMimeTypes |-> TRUE, mimeTypes |-> m] : m \in SUBSET MimeTypes}
Capabilities ==
  {NoCapabilities} \cup
  [defined : {TRUE}, extensions : Entries, experimental : Entries]

\* ext.mimeTypes?.includes(mimeType)
Includes(ext, mimeType) == ext.hasMimeTypes /\ mimeType \in ext.mimeTypes

getMcpAppsCapabilityLocation(capabilities) ==
  IF ~capabilities.defined THEN "null"
  ELSE IF capabilities.extensions.present
          /\ Includes(capabilities.extensions, MCP_APPS_MIME_TYPE)
    THEN "extensions"
  ELSE IF capabilities.experimental.present
          /\ Includes(capabilities.experimental, MCP_APPS_MIME_TYPE)
    THEN "experimental"
  ELSE "null"

clientSupportsMcpApps(capabilities) ==
  getMcpAppsCapabilityLocation(capabilities) # "null"

\* returns from the extensions branch whenever the entry exists
clientSupportsMimeType(capabilities, mimeType) ==
  IF ~capabilities.defined THEN FALSE
  ELSE IF capabilities.extensions.present
    THEN Includes(capabilities.extensions, mimeType)
  ELSE IF capabilities.experimental.present
    THEN Includes(capabilities.experimental, mimeType)
  ELSE FALSE

\* the server asks whether the client supports the MIME type
AskMimeType ==
  /\ "clientSupportsMimeType" \notin detection.asked
  /\ detection' = [detection EXCEPT
       !.asked = @ \cup {"clientSupportsMimeType"},
       !.supportsMimeType =
          clientSupportsMimeType(detection.capabilities, detection.mimeType)]
  /\ UNCHANGED <<toolCall, assets, widgetHtmlCache, loaded, serverVars, clientVars, widgetVars>>

\* the server asks whether the client supports MCP Apps
AskMcpApps ==
  /\ "clientSupportsMcpApps" \notin detection.asked
  /\ detection' = [detection EXCEPT
       !.asked = @ \cup {"clientSupportsMcpApps"},
       !.supportsMcpApps = clientSupportsMcpApps(detection.capabilities)]
  /\ UNCHANGED <<toolCall, assets, widgetHtmlCache, loaded, serverVars, clientVars, widgetVars>>

DetectionInit ==
  /\ ClientInit
  /\ ServerInit
  /\ WidgetInit
  /\ toolCall = NoToolCall
  /\ assets = [w \in Widgets |-> Missing]
  /\ widgetHtmlCache = NullHtml
  /\ loaded = NoLoad
  /\ detection \in [capabilities : Capabilities, mimeType : MimeTypes, asked : {{}},
                    supportsMimeType : {FALSE}, supportsMcpApps : {FALSE}]

DetectionNext == AskMimeType \/ AskMcpApps

DetectionSpec == DetectionInit /\ [][DetectionNext]_vars

\* ================================================================= claims
\* the registry object of an endpoint, read directly from the state
RegistryOf(ep) == IF ep = "/mcp" THEN mcpTransports ELSE mcpAppTransports
RegistryOfNext(ep) == IF ep = "/mcp" THEN mcpTransports' ELSE mcpAppTransports'
InRegistry(ep, sid) == sid \in DOMAIN RegistryOf(ep)
\* the step is the arrival of a request at a route handler
Arrival == requestCount' = requestCount + 1
\* every key of every registry other than (ep, sid) keeps its transport
OtherEntriesKept(ep, sid) ==
  \A e \in Endpoints : \A k \in DOMAIN RegistryOf(e) :
    (e # ep \/ k # sid) =>
      (k \in DOMAIN RegistryOfNext(e) /\ RegistryOfNext(e)[k] = RegistryOf(e)[k])
NoEntryAddedExcept(ep, sid) ==
  \A e \in Endpoints : \A k \in DOMAIN RegistryOfNext(e) :
    (e # ep \/ k # sid) => k \in DOMAIN RegistryOf(e)
RegistriesUnchanged ==
  mcpTransports' = mcpTransports /\ mcpAppTransports' = mcpAppTransports

\* the step condition of C1
C1_Step ==
  /\ (Arrival /\ last'.op = "POST" /\ last'.sid # NoSessionId
        /\ InRegistry(last'.ep, last'.sid)) =>
       LET t == RegistryOf(last'.ep)[last'.sid]
       IN  /\ Len(transport') = Len(transport)
           /\ last'.t = t /\ last'.status = Delegated
           /\ transport'[t].delivered = Append(transport[t].delivered, last'.req)
           /\ \A u \in DOMAIN transport : u # t => transport'[u] = transport[u]
           /\ RegistriesUnchanged
           /\ suspended' = suspended
  /\ (Len(transport') # Len(transport)) =>
       /\ Arrival /\ last'.op = "POST" /\ last'.sid = NoSessionId
       /\ isInitializeRequest(last'.body)
       /\ Len(transport') = Len(transport) + 1
       /\ transport'[Len(transport')] = NewTransport(last'.ep)
       /\ \A u \in DOMAIN transport : transport'[u] = transport[u]
\* C1: a POST that presents a registered session id is handed, in the step of
\* its arrival, to the transport registered under that id and constructs
\* nothing; a transport (and its server) is constructed only by an initialize
\* POST without a session id, one per such POST.
C1_OneSessionSameTransport == [][C1_Step]_vars
\* one session, created by request 1, has been handed requests 1, 2 and 3
C1_Witness ==
  /\ Len(transport) = 1 /\ requestCount = 3 /\ ~last.threw
  /\ transport[1].delivered = <<1, 2, 3>>
  /\ InRegistry(transport[1].endpoint, transport[1].sessionId)

\* the step condition of C2
C2_Step ==
  (last'.op = "POST-resume" /\ suspended' # suspended) =>
    LET t == last'.t
        ep == last'.ep
        sid == transport'[t].sessionId
    IN  /\ transport[t].sessionId = NoSessionId /\ sid # NoSessionId
        /\ transport[t].endpoint = ep
        /\ transport[t].server = (IF ep = "/mcp" THEN "initMcpServer" ELSE "initMcpAppServer")
        /\ \A e \in Endpoints : ~InRegistry(e, sid)
        /\ \A u \in DOMAIN transport : transport[u].sessionId # sid
        /\ DOMAIN RegistryOfNext(ep) = DOMAIN RegistryOf(ep) \cup {sid}
        /\ RegistryOfNext(ep)[sid] = t
        /\ OtherEntriesKept(ep, sid) /\ NoEntryAddedExcept(ep, sid)
        /\ transport'[t].delivered = <<last'.req>>
        /\ \A u \in DOMAIN transport : u # t => transport'[u] = transport[u]
\* C2: when the POST of a new session has been handled (its continuation
\* after server.connect has run handleRequest), the transport constructed for
\* it carries a session id no transport or registry held before, the body has
\* been delivered to it, and the registry of its endpoint has exactly one
\* entry more: that id, mapped to that transport.
C2_NewSessionRegistered == [][C2_Step]_vars
\* a second session has just been registered next to a first one
C2_Witness ==
  /\ last.op = "POST-resume"
  /\ Len(transport) = 2
  /\ InRegistry(last.ep, transport[last.t].sessionId)
  /\ RegistryOf(last.ep)[transport[last.t].sessionId] = last.t
  /\ Cardinality(DOMAIN mcpTransports) + Cardinality(DOMAIN mcpAppTransports) = 2

\* the step condition of C3
C3_Step ==
  (Arrival /\ last'.op = "POST"
     /\ \/ (last'.sid # NoSessionId /\ ~InRegistry(last'.ep, last'.sid))
        \/ (last'.sid = NoSessionId /\ ~isInitializeRequest(last'.body))) =>
    /\ last'.status = BadRequest /\ last'.t = 0
    /\ RegistriesUnchanged
    /\ transport' = transport
    /\ suspended' = suspended
    /\ uuidCount' = uuidCount
C4_Step ==
  (Arrival /\ last'.op \in {"GET", "DELETE"}
     /\ (last'.sid = NoSessionId \/ ~InRegistry(last'.ep, last'.sid))) =>
    /\ last'.status = NotFound /\ last'.t = 0
    /\ RegistriesUnchanged
    /\ transport' = transport
    /\ suspended' = suspended
    /\ uuidCount' = uuidCount
C5_Step ==
  ((last'.op = "close" \/ (last'.op = "DELETE" /\ last'.status = Delegated))
     /\ last' # last /\ transport[last'.t].sessionId # NoSessionId) =>
    LET t == last'.t
        ep == transport[t].endpoint
        sid == transport[t].sessionId
    IN  /\ sid \notin DOMAIN RegistryOfNext(ep)
        /\ OtherEntriesKept(ep, sid) /\ NoEntryAddedExcept(ep, sid)
        /\ transport'[t].closed
        /\ ~InRegistry(ep, sid) => RegistriesUnchanged
\* C5: every close of a transport that has a session id (by DELETE or by the
\* connection closing) leaves that id absent from the registry and every
\* other entry in place; a close that finds the id already absent changes no
\* registry.
C5_TeardownIdempotent == [][C5_Step]_vars
\* the connection of an already closed session closes again while another
\* session stays registered
C5_Witness ==
  /\ last.op = "close" /\ last.closedBefore
  /\ transport[last.t].sessionId # NoSessionId
  /\ Cardinality(DOMAIN mcpTransports) + Cardinality(DOMAIN mcpAppTransports) = 1

\* C6: no two transports carry the same session id, and every registry entry
\* maps its key to a transport of that endpoint whose sessionId is the key.
C6_OneSessionPerId ==
  /\ \A t1, t2 \in DOMAIN transport :
       (t1 # t2 /\ transport[t1].sessionId # NoSessionId) =>
         transport[t1].sessionId # transport[t2].sessionId
  /\ \A ep \in Endpoints : \A sid \in DOMAIN RegistryOf(ep) :
       /\ RegistryOf(ep)[sid] \in DOMAIN transport
       /\ transport[RegistryOf(ep)[sid]].sessionId = sid
       /\ transport[RegistryOf(ep)[sid]].endpoint = ep
\* two sessions of one endpoint are registered at once
C6_Witness ==
  \E ep \in Endpoints : Cardinality(DOMAIN RegistryOf(ep)) = 2

\* C7 as stated: whenever a POST is suspended at an await, its transport
\* already has its session id and is registered under it.
C7_RegisteredBeforeAwait ==
  \A r \in suspended :
    /\ transport[r.t].sessionId # NoSessionId
    /\ InRegistry(r.ep, transport[r.t].sessionId)
\* the state and step conditions of C7 as amended
C7_SuspendedUnregistered ==
  \A r \in suspended :
    /\ transport[r.t].sessionId = NoSessionId
    /\ \A ep \in Endpoints : \A sid \in DOMAIN RegistryOf(ep) : RegistryOf(ep)[sid] # r.t
C7_Step ==
  \A t \in DOMAIN transport' :
    (transport'[t].sessionId # NoSessionId
       /\ (t \notin DOMAIN transport \/ transport[t].sessionId = NoSessionId)) =>
      /\ last'.op = "POST-resume" /\ last'.t = t
      /\ t \in DOMAIN transport
      /\ transport'[t].sessionId \in DOMAIN RegistryOfNext(transport'[t].endpoint)
      /\ RegistryOfNext(transport'[t].endpoint)[transport'[t].sessionId] = t
\* C7 amended: the session id is generated and the transport registered in
\* one step, the continuation of the POST after server.connect; while the
\* POST is suspended its transport has no session id and no registry holds it.
C7_IdAndInsertionInOneStep == [](C7_SuspendedUnregistered) /\ [][C7_Step]_vars
\* another request was handled while a new session's POST was suspended
C7_Witness ==
  /\ suspended # {}
  /\ \E r \in suspended : r.req < last.req /\ last.op \in {"POST", "GET", "DELETE"}

\* the step condition of C8
C8_Step ==
  (last' # last) =>
    /\ \A u \in DOMAIN transport : u # last'.t => transport'[u] = transport[u]
    /\ \A e \in Endpoints : \A k \in DOMAIN RegistryOf(e) :
         RegistryOf(e)[k] # last'.t =>
           (k \in DOMAIN RegistryOfNext(e) /\ RegistryOfNext(e)[k] = RegistryOf(e)[k])
    /\ \A e \in Endpoints : \A k \in DOMAIN RegistryOfNext(e) :
         k \notin DOMAIN RegistryOf(e) => RegistryOfNext(e)[k] = last'.t
\* C8: a step that acts on one transport (a delivery, also one that throws,
\* a stream attach, a teardown) leaves every other transport as it was and
\* every registry entry of another transport in place, and adds no entry for
\* another transport; a rejected request changes no transport and no registry.
C8_OtherSessionsUntouched == [][C8_Step]_vars
\* a session was torn down by DELETE while another session stays registered
C8_Witness ==
  /\ last.op = "DELETE" /\ last.status = Delegated
  /\ Cardinality(DOMAIN mcpTransports) + Cardinality(DOMAIN mcpAppTransports) = 1
  /\ \E u \in DOMAIN transport : u # last.t /\ transport[u].delivered # <<>>

\* C9: every transport is handed its requests in the order of their arrival.
C9_ArrivalOrder ==
  \A t \in DOMAIN transport :
    \A i, j \in DOMAIN transport[t].delivered :
      i < j => transport[t].delivered[i] < transport[t].delivered[j]
\* a session was handed two later POSTs, the second of which threw
C9_Witness ==
  \E t \in DOMAIN transport :
    /\ Len(transport[t].delivered) = 3
    /\ transport[t].delivered[2] < transport[t].delivered[3]
    /\ last.op = "POST" /\ last.t = t /\ last.threw

\* the requests among the messages posted to the parent
PostedRequests == SelectSeq(posted, LAMBDA m : m.kind = "request")

\* C10: the k-th sendRequest call is assigned id k and is posted once, as the
\* k-th request; nothing is posted again after a response, an error, a
\* timeout or destroy.
C10_IdsCountSends ==
  /\ requestId = Len(calls)
  /\ Len(PostedRequests) = Len(calls)
  /\ \A k \in DOMAIN calls :
       /\ calls[k].id = k
       /\ PostedRequests[k].id = k
       /\ PostedRequests[k].method = calls[k].method
\* two requests were sent; the first timed out before the second was sent,
\* which is still pending
C10_Witness ==
  /\ Len(calls) = 2
  /\ calls[1].outcome = <<"rejected-timeout">>
  /\ DOMAIN pendingRequests = {2}
  /\ Len(posted) = 2

\* --------------------------------------------------------------------- C11
ResponseOutcomes == {"resolved", "rejected-remote", "rejected-timeout"}

\* C11 as stated: every request is settled at most once, and what settles it
\* is a matching response with a result, a matching response with an error, or
\* the timeout.
C11_SettledByResponseOrTimeout ==
  \A k \in DOMAIN calls :
    /\ Len(calls[k].outcome) <= 1
    /\ \A i \in DOMAIN calls[k].outcome : calls[k].outcome[i] \in ResponseOutcomes

\* C11 as the code has it: resolve or reject is called at most once for every
\* request, by a matching response with a result, a matching response with an
\* error, the timeout, or destroy(), and a request that has been settled is
\* neither in the pending map nor has a timer armed.
C11_SettledAtMostOnce ==
  \A k \in DOMAIN calls :
    /\ Len(calls[k].outcome) <= 1
    /\ Len(calls[k].value) = Len(calls[k].outcome)
    /\ \A i \in DOMAIN calls[k].outcome :
         calls[k].outcome[i] \in ResponseOutcomes \cup {"rejected-destroyed"}
    /\ calls[k].outcome # <<>> =>
         /\ k \notin timers
         /\ calls[k].id \notin DOMAIN pendingRequests

\* the first request timed out, and destroy() has just rejected the second
C11_Witness ==
  /\ Len(calls) = 2
  /\ calls[1].outcome = <<"rejected-timeout">>
  /\ calls[2].outcome = <<"rejected-destroyed">>
  /\ event.op = "destroy"

LateResponse ==
  /\ event'.op \in {"response", "unknown-response"}
  /\ \E k \in DOMAIN calls : calls[k].id = event'.id /\ calls[k].outcome # <<>>

\* the step condition of C13
C13_Step ==
  LateResponse =>
    UNCHANGED <<pendingRequests, timers, calls, initialized, hostContext, posted,
                state, notificationHandlers>>

\* C13: a response whose id belongs to a request already settled, by its
\* timeout or by an earlier response, is discarded: nothing is resolved or
\* rejected, the pending map stays as it is and no other pending request, timer
\* or promise is touched.
C13_LateResponseDiscarded == [][C13_Step]_vars

\* the first request timed out, its response has just arrived, and the second
\* request is still pending
C13_Witness ==
  /\ Len(calls) = 2
  /\ calls[1].outcome = <<"rejected-timeout">>
  /\ event = [op |-> "unknown-response", id |-> calls[1].id, k |-> 0]
  /\ DOMAIN pendingRequests = {calls[2].id}
  /\ 2 \in timers

\* --------------------------------------------------------------------- C14
\* the step condition of C14
C14_Step ==
  \A data \in Responses :
    (HandleMessage(data) /\ data.id \in DOMAIN pendingRequests) =>
      LET k == pendingRequests[data.id]
      IN  /\ IF data.error # NoError
               THEN /\ calls'[k].outcome = <<"rejected-remote">>
                    /\ calls'[k].value = <<[message |-> data.error.message,
                                            code |-> data.error.code]>>
               ELSE /\ calls'[k].outcome = <<"resolved">>
                    /\ calls'[k].value = <<data.payload>>
          /\ data.id \notin DOMAIN pendingRequests'
          /\ k \notin timers'

\* C14: a response whose id matches a pending request rejects the request
\* with the remote message and code when it has an error object and resolves
\* it with the result otherwise; either way the entry leaves the pending map
\* and its timer is cleared.
C14_ResponseSettles == [][C14_Step]_vars

\* the first request was resolved with the result of its response, and the
\* second has just been rejected with the message and code of its response
C14_Witness ==
  /\ Len(calls) = 2
  /\ calls[1].outcome = <<"resolved">>
  /\ calls[1].value = <<Obj("dark", "")>>
  /\ event = [op |-> "response", id |-> calls[2].id, k |-> 2]
  /\ calls[2].outcome = <<"rejected-remote">>
  /\ calls[2].value = <<[message |-> "denied", code |-> -32000]>>
  /\ pendingRequests = <<>>
  /\ timers = {}

\* --------------------------------------------------------------------- C15
\* the step condition of C15: the step settles call event'.k by a response or
\* by its timeout
C15_Step ==
  event'.op \in {"response", "timeout"} =>
    /\ \A id \in DOMAIN pendingRequests :
         pendingRequests[id] # event'.k =>
           /\ id \in DOMAIN pendingRequests'
           /\ pendingRequests'[id] = pendingRequests[id]
    /\ \A j \in DOMAIN calls :
         j # event'.k =>
           /\ calls'[j] = calls[j]
           /\ (j \in timers') = (j \in timers)

\* C15: settling one request, by a response with a result, a response with
\* an error or its timeout, leaves every other request as it was: the others
\* stay in the pending map, their timers stay armed and their promises stay
\* unsettled.
C15_OthersUntouched == [][C15_Step]_vars

\* the second request has just been answered with an error while the first is
\* still pending with its timer armed
C15_Witness ==
  /\ Len(calls) = 2
  /\ event = [op |-> "response", id |-> calls[2].id, k |-> 2]
  /\ calls[2].outcome = <<"rejected-remote">>
  /\ calls[1].outcome = <<>>
  /\ DOMAIN pendingRequests = {calls[1].id}
  /\ timers = {1}

\* --------------------------------------------------------------------- C16
\* the step posts a ui/initialize request
PostsInitialize ==
  /\ Len(posted') = Len(posted) + 1
  /\ posted'[Len(posted')].kind = "request"
  /\ posted'[Len(posted')].method = "ui/initialize"

\* C16 as stated: while an initialize() call is in flight, or after one has
\* completed, no initialize() call posts a second ui/initialize request.
C16_NoSecondInitialize ==
  [][PostsInitialize =>
       \A k \in DOMAIN calls :
         calls[k].method = "ui/initialize" =>
           calls[k].outcome \notin {<<>>, <<"resolved">>}]_vars

\* the step condition of C16 for McpUiStore.initialize()
C16_Step ==
  /\ initPromise # 0 => initPromise' = initPromise
  /\ (StoreInitialize /\ initPromise # 0) =>
       /\ event'.k = initPromise
       /\ UNCHANGED <<requestId, pendingRequests, timers, calls, posted,
                      notificationHandlers, initialized, hostContext, state>>

\* C16 as the code has it: McpUiStore.initialize() is idempotent: called
\* again while its first call is in flight or after that call has completed, it
\* returns the promise of the first call and posts nothing. McpUiClient.initialize()
\* keeps no such memo: every call of it posts a ui/initialize request of its own.
C16_StoreInitializeMemoized == [][C16_Step]_vars

\* store.initialize() has just been called again after the handshake it
\* started had completed; one ui/initialize request was posted in all
C16_Witness ==
  /\ initPromise = 1
  /\ calls[1].outcome = <<"resolved">>
  /\ state.initialized
  /\ event = [op |-> "store.initialize", id |-> 0, k |-> 1]
  /\ Len(calls) = 1
  /\ Len(SelectSeq(posted, LAMBDA m : m.method = "ui/initialize")) = 1

\* --------------------------------------------------------------------- C17
InitializedNotification ==
  [kind |-> "notification", id |-> 0, method |-> "ui/notifications/initialized"]

\* the ui/initialize requests that got a successful reply
Handshakes ==
  {k \in DOMAIN calls :
     calls[k].method = "ui/initialize" /\ calls[k].outcome = <<"resolved">>}

C17_Ordered ==
  /\ initialized <=> Handshakes # {}
  /\ Len(SelectSeq(posted, LAMBDA m : m = InitializedNotification))
       = Cardinality(Handshakes)
  /\ \A i \in DOMAIN posted :
       posted[i] = InitializedNotification =>
         \E j \in 1..(i - 1) :
           posted[j].kind = "request" /\ posted[j].method = "ui/initialize"

\* the step condition of C17
C17_Step ==
  /\ \A data \in Responses :
       (/\ HandleMessage(data)
        /\ data.id \in DOMAIN pendingRequests
        /\ calls[pendingRequests[data.id]].method = "ui/initialize"
        /\ data.error = NoError) =>
         /\ initialized'
         /\ hostContext' = data.payload
         /\ posted' = Append(posted, InitializedNotification)
  /\ (initialized' # initialized \/ Len(posted') > Len(posted)) =>
       \/ /\ event'.op = "response"
          /\ event'.k \in DOMAIN calls
          /\ calls[event'.k].method = "ui/initialize"
          /\ calls'[event'.k].outcome = <<"resolved">>
       \/ /\ initialized' = initialized
          /\ posted' = Append(posted, [kind |-> "request", id |-> requestId',
                                       method |-> "ui/initialize"])

\* C17: the handshake is ordered. The ui/initialize request is posted first;
\* the client becomes initialized only by a successful reply, which also
\* replaces the cached host context by the reply's hostContext (null when the
\* reply has none); the ui/notifications/initialized notification is posted in
\* that same step, once for every successful handshake and never before the reply.
C17_HandshakeOrdered == [](C17_Ordered) /\ [][C17_Step]_vars

\* the host has just answered ui/initialize with hostContext {theme: "dark"}
C17_Witness ==
  /\ event = [op |-> "response", id |-> 1, k |-> 1]
  /\ initialized
  /\ hostContext = Obj("dark", "")
  /\ posted = <<[kind |-> "request", id |-> 1, method |-> "ui/initialize"],
                InitializedNotification>>

\* --------------------------------------------------------------------- C18
\* the step condition of C18
C18_Step ==
  \A data \in ContextNotifications :
    (HandleMessage(data) /\ initialized /\ data.payload.present) =>
      hostContext' = ShallowMerge(hostContext, data.payload)

\* C18: after initialization, whether the reply had a hostContext or not,
\* every host-context-changed notification is shallow-merged into the cached
\* host context: the keys it names take its values, the other keys keep theirs.
C18_ContextMerged == [][C18_Step]_vars

\* --------------------------------------------------------------------- C19
\* the step condition of C19
C19_Step ==
  event'.op = "destroy" =>
    /\ \A id \in DOMAIN pendingRequests :
         LET k == pendingRequests[id]
         IN  /\ calls'[k].outcome = Append(calls[k].outcome, "rejected-destroyed")
             /\ calls'[k].value = Append(calls[k].value, [message |-> "Client destroyed"])
             /\ k \notin timers'
    /\ \A k \in DOMAIN calls :
         calls[k].id \notin DOMAIN pendingRequests => calls'[k] = calls[k]
    /\ pendingRequests' = <<>>
    /\ notificationHandlers' = <<>>

\* C19: destroy() rejects every request pending at that moment with the
\* "Client destroyed" error and clears its timeout, so that no timer of theirs
\* is left to fire, and it leaves the pending map and the subscription map empty.
C19_DestroyRejectsAll == [][C19_Step]_vars

\* destroy() has just rejected two pending requests
C19_Witness ==
  /\ event.op = "destroy"
  /\ Len(calls) = 2
  /\ \A k \in {1, 2} :
       /\ calls[k].outcome = <<"rejected-destroyed">>
       /\ calls[k].value = <<[message |-> "Client destroyed"]>>
  /\ timers = {}
  /\ pendingRequests = <<>>
  /\ notificationHandlers = <<>>

\* --------------------------------------------------------------------- C20
\* destroy() has been called: it alone detaches the message listener
Destroyed == ~listening

\* the step condition of C20
C20_Step ==
  (Destroyed /\ Len(calls') = Len(calls) + 1) =>
    /\ calls'[Len(calls')].outcome = <<"rejected-destroyed">>
    /\ posted' = posted
    /\ pendingRequests' = pendingRequests
    /\ timers' = timers

\* C20: after destroy() every sendRequest, whether made by initialize(),
\* openLink() or callTool(), rejects with the destroyed error, posts nothing
\* to the parent, creates no pending request and arms no timer.
C20_NoSendAfterDestroy == [][C20_Step]_vars

\* --------------------------------------------------------------------- C21
\* the handlers registered for a method
HandlersOf(handlers, method) ==
  IF method \in DOMAIN handlers THEN handlers[method] ELSE {}

SubscribedMethods == {ToolInput, ToolInputPartial, ToolResult, HostContextChanged}

\* the step condition of C21
C21_Step ==
  /\ event'.op = "notification" =>
       /\ event'.invoked = HandlersOf(notificationHandlers, event'.method)
       /\ notificationHandlers' = notificationHandlers
  /\ event'.op \in {"onNotification", "unsubscribe"} =>
       \A m \in SubscribedMethods :
         HandlersOf(notificationHandlers', m) =
           IF m # event'.method THEN HandlersOf(notificationHandlers, m)
           ELSE IF event'.op = "onNotification"
             THEN HandlersOf(notificationHandlers, m) \cup {event'.handler}
             ELSE HandlersOf(notificationHandlers, m) \ {event'.handler}
  /\ (\E m \in SubscribedMethods :
        HandlersOf(notificationHandlers', m) # HandlersOf(notificationHandlers, m))
       => event'.op \in {"onNotification", "unsubscribe", "destroy", "store.initialize"}

\* C21: a handler registered with onNotification(method, h) is called once
\* for every notification of that method that is dispatched and for no other
\* method, from its registration until its unsubscribe function is called;
\* the unsubscribe function removes that handler from that method only, leaves
\* every other handler registered, and changes nothing when called again.
C21_SubscribedUntilUnsubscribed == [][C21_Step]_vars

\* h1 and h2 were subscribed to tool-input and h1 to tool-result; h1 was
\* unsubscribed from tool-input, and the tool-input notification that has just
\* been dispatched reached h2 only
C21_Witness ==
  /\ event.op = "notification"
  /\ event.method = ToolInput
  /\ event.invoked = {"h2"}
  /\ HandlersOf(notificationHandlers, ToolResult) = {"h1"}

\* --------------------------------------------------------------------- C22
\* the step condition of C22
C22_Step ==
  event'.op = "notification" =>
    /\ event'.invoked = HandlersOf(notificationHandlers, event'.method)
    /\ event'.caught = {h \in event'.invoked : h \in ThrowingHandlers}
    /\ ~event'.escaped

\* C22: when one of several handlers subscribed to a notification method
\* throws, every other handler of that method is still called for that
\* notification and the exception does not leave the message dispatch.
C22_ThrowingHandlerContained == [][C22_Step]_vars

\* a tool-input notification has just been dispatched to h1 and to h2, which threw
C22_Witness ==
  /\ event.op = "notification"
  /\ event.method = ToolInput
  /\ event.invoked = {"h1", "h2"}
  /\ event.caught = {"h2"}
  /\ ~event.escaped

\* --------------------------------------------------------------------- C23
\* the step condition of C23
C23_Step ==
  \A data \in ForeignData :
    HandleMessage(data) =>
      /\ event'.op = "ignored"
      /\ UNCHANGED <<pendingRequests, timers, calls, notificationHandlers,
                     hostContext, toolArguments, toolResult, initialized, posted,
                     state, requestId>>

\* C23: a window message without the JSON-RPC envelope (no data, or a
\* jsonrpc member other than "2.0") is ignored: the pending map, the
\* subscriptions, the cached host context and the cached tool input and result
\* stay as they are, no handler is called and no promise is settled.
C23_ForeignIgnored == [][C23_Step]_vars

\* a message without the envelope has just been ignored while request 1 was
\* pending and h1 was subscribed to tool-input
C23_Witness ==
  /\ event.op = "ignored"
  /\ DOMAIN pendingRequests = {1}
  /\ calls[1].outcome = <<>>
  /\ HandlersOf(notificationHandlers, ToolInput) = {"h1"}

\* --------------------------------------------------------------------- C24
\* the step condition of C24
C24_Step ==
  \A data \in DispatchData :
    (HandleMessage(data) /\ data # NoData /\ data.jsonrpc = "2.0") =>
      /\ (data.hasId /\ ~data.nullId) =>
           /\ event'.op \in {"response", "unknown-response"}
           /\ UNCHANGED <<toolArguments, toolResult, notificationHandlers>>
           /\ state'.toolArguments = state.toolArguments
           /\ state'.toolResult = state.toolResult
           /\ (event'.op = "unknown-response"
               \/ calls[event'.k].method # "ui/initialize") =>
                UNCHANGED <<hostContext, state>>
      /\ (data.hasMethod /\ ~data.hasId) =>
           /\ event'.op = "notification"
           /\ UNCHANGED <<pendingRequests, timers, calls>>
      /\ ~(data.hasId /\ ~data.nullId) /\ ~(data.hasMethod /\ ~data.hasId) =>
           /\ event'.op = "unclassified"
           /\ UNCHANGED <<pendingRequests, timers, calls, toolArguments, toolResult,
                          hostContext, state, notificationHandlers>>

PostsNotification ==
  /\ Len(posted') = Len(posted) + 1
  /\ posted'[Len(posted')].kind = "notification"

\* the step condition of C25
C25_Step ==
  PostsNotification =>
    /\ posted'[Len(posted')].id = 0
    /\ requestId' = requestId
    /\ Len(calls') = Len(calls)
    /\ DOMAIN pendingRequests' \subseteq DOMAIN pendingRequests
    /\ timers' \subseteq timers
    /\ event'.op = "notifySizeChanged" => UNCHANGED <<pendingRequests, timers, calls>>

\* the request ids in use are those of the requests posted, whatever
\* notifications were posted in between
C25_IdsOfRequestsOnly ==
  /\ requestId = Len(PostedRequests)
  /\ \A i \in DOMAIN PostedRequests : PostedRequests[i].id = i

\* C25: sending a notification (ui/notifications/initialized,
\* ui/notifications/size-changed) posts a message without an id; it takes no
\* request id, creates no pending request and arms no timer, so the request-id
\* counter and the pending map are as they were.
C25_NotificationsUncorrelated == [](C25_IdsOfRequestsOnly) /\ [][C25_Step]_vars

\* the handshake completed, the size was reported, and the request sent after
\* these two notifications has id 2
C25_Witness ==
  /\ Len(posted) = 4
  /\ posted[2] = [kind |-> "notification", id |-> 0,
                  method |-> "ui/notifications/initialized"]
  /\ posted[3] = [kind |-> "notification", id |-> 0, method |-> SizeChanged]
  /\ posted[4] = [kind |-> "request", id |-> 2, method |-> "tools/call"]
  /\ DOMAIN pendingRequests = {2}
  /\ timers = {2}

\* --------------------------------------------------------------------- C28
\* the step condition of C28: a tool-input or tool-input-partial notification
\* with arguments reaches the store
C28_Step ==
  \A data \in ToolInputData :
    (/\ HandleMessage(data)
     /\ "store" \in HandlersOf(notificationHandlers, data.method)
     /\ data.payload.present) =>
      /\ state'.toolArguments.present
      /\ \A key \in {"theme", "locale"} :
           state'.toolArguments[key] =
             IF data.payload[key] # "" THEN data.payload[key]
             ELSE IF data.method = ToolInputPartial /\ state.toolArguments.present
               THEN state.toolArguments[key]
               ELSE ""

TornDown(sid) ==
  /\ \E t \in DOMAIN transport : transport[t].sessionId = sid
  /\ \A e \in Endpoints : ~InRegistry(e, sid)

\* the step condition of C30
C30_Step ==
  \A sid \in SessionIds :
    TornDown(sid) =>
      /\ \A e \in Endpoints : sid \notin DOMAIN RegistryOfNext(e)
      /\ (Arrival /\ last'.sid = sid) =>
           /\ last'.status = (IF last'.op = "POST" THEN BadRequest ELSE NotFound)
           /\ last'.t = 0
           /\ transport' = transport
           /\ suspended' = suspended
           /\ uuidCount' = uuidCount

\* C30: once a session has been torn down its id is never registered again,
\* and every later request presenting it is refused at the route (a POST with
\* 400, a GET or DELETE with 404) without reaching or constructing a transport.
C30_NeverResurrected == [][C30_Step]_vars

\* an initialize request presenting the id of a session deleted before it was
\* refused
C30_Witness ==
  /\ last.op = "POST" /\ last.status = BadRequest
  /\ last.sid # NoSessionId /\ isInitializeRequest(last.body)
  /\ TornDown(last.sid)
  /\ \E t \in DOMAIN transport :
       transport[t].sessionId = last.sid /\ transport[t].closed

\* --------------------------------------------------------------------- C26
\* twice the bubble count given
Twice(x) == 2 * x.whole + x.half

\* C26: a bubble_wrap call with a bubbleCount below 1 or above 500 fails with
\* the range error and yields neither content nor structuredContent; with a
\* bubbleCount within 1..500 it succeeds, and structuredContent.bubbleCount is
\* the integer n of 1..500 with n <= bubbleCount < n + 1.
C26_BubbleCountValidated ==
  (toolCall.done /\ toolCall.bubbleCount.given) =>
    LET x2 == Twice(toolCall.bubbleCount)
        result == toolCall.result
        n == result.structuredContent.bubbleCount
    IN  IF x2 < 2 * MinBubbleCount \/ x2 > 2 * MaxBubbleCount
          THEN /\ result.threw /\ result.message = OutOfRange
               /\ ~result.content /\ ~result.structuredContent.present
          ELSE /\ ~result.threw
               /\ result.content /\ result.structuredContent.present
               /\ n \in MinBubbleCount..MaxBubbleCount
               /\ 2 * n <= x2 /\ x2 < 2 * n + 2

\* the server of mcp/server.ts has answered the bubble count 499.5 with 499
C26_Witness ==
  /\ toolCall.done
  /\ toolCall.bubbleCount = Number(MaxBubbleCount - 1, 1)
  /\ toolCall.result.structuredContent.bubbleCount = MaxBubbleCount - 1
  /\ toolCall.server = "mcp/server.ts"

\* --------------------------------------------------------------------- C27
\* C27: a widget asset loader never throws to its caller: it returns the
\* markup of the widget's file when the file can be read and the diagnostic
\* placeholder document when the file is missing or unreadable.
C27_LoaderNeverThrows ==
  loaded.called =>
    /\ ~loaded.threw
    /\ loaded.html = IF assets[loaded.widgetName].readable
                       THEN assets[loaded.widgetName].markup
                       ELSE DevModeHtml

\* --------------------------------------------------------------------- C29
\* the MIME type is listed in the MCP Apps entry of either path
Listed(capabilities, mimeType) ==
  /\ capabilities.defined
  /\ \/ Includes(capabilities.extensions, mimeType)
     \/ Includes(capabilities.experimental, mimeType)

\* C29: clientSupportsMimeType(caps, m) is true whenever m is listed in the
\* MCP Apps mimeTypes under capabilities.extensions or under
\* capabilities.experimental, and for m = MCP_APPS_MIME_TYPE it agrees with
\* clientSupportsMcpApps(caps).
C29_EitherPathDetected ==
  /\ ("clientSupportsMimeType" \in detection.asked
        /\ Listed(detection.capabilities, detection.mimeType)) =>
       detection.supportsMimeType
  /\ (detection.asked = {"clientSupportsMimeType", "clientSupportsMcpApps"}
        /\ detection.mimeType = MCP_APPS_MIME_TYPE) =>
       detection.supportsMimeType = detection.supportsMcpApps

\* --------------------------------------------------------------------- C31
\* every registry entry maps its key to a transport of that endpoint whose
\* own sessionId is the key
C31_EntriesKeyedBySessionId ==
  \A e \in Endpoints : \A k \in DOMAIN RegistryOf(e) :
    /\ RegistryOf(e)[k] \in DOMAIN transport
    /\ transport[RegistryOf(e)[k]].sessionId = k
    /\ transport[RegistryOf(e)[k]].endpoint = e

\* the step condition of C31
C31_Step ==
  /\ \A e \in Endpoints : \A k \in DOMAIN RegistryOfNext(e) :
       k \notin DOMAIN RegistryOf(e) =>
         LET t == RegistryOfNext(e)[k]
         IN  /\ last'.op \in {"POST", "POST-resume"} /\ last'.t = t
             /\ transport[t].sessionId = NoSessionId
             /\ transport'[t].sessionId = k
  /\ \A e \in Endpoints : \A k \in DOMAIN RegistryOf(e) :
       k \notin DOMAIN RegistryOfNext(e) =>
         /\ last'.op \in {"close", "DELETE"} /\ last'.t = RegistryOf(e)[k]
         /\ transport'[RegistryOf(e)[k]].closed
  /\ (last'.op = "close" /\ last' # last
        /\ transport[last'.t].sessionId = NoSessionId) => RegistriesUnchanged

\* C31: in every reachable state each registry entry maps a key to a
\* transport whose sessionId is that key; an entry is added only when that
\* transport's session is initialized and removed only when that transport
\* closes, so a transport without a session id is in no registry and its close
\* removes nothing.
C31_RegistryOwnedByTransports ==
  [](C31_EntriesKeyedBySessionId) /\ [][C31_Step]_vars

\* a transport that never got a session id was closed while a session of
\* another transport is registered
C31_Witness ==
  /\ last.op = "close"
  /\ transport[last.t].sessionId = NoSessionId
  /\ \E e \in Endpoints : \E k \in DOMAIN RegistryOf(e) : RegistryOf(e)[k] # last.t

\* --------------------------------------------------------------------- C32
OtherEndpoint(ep) == IF ep = "/mcp" THEN "/mcp-app" ELSE "/mcp"

\* no session id is registered at both endpoints
C32_DisjointKeys == DOMAIN mcpTransports \cap DOMAIN mcpAppTransports = {}

\* the step condition of C32
C32_Step ==
  /\ (Arrival /\ last'.sid # NoSessionId
        /\ InRegistry(OtherEndpoint(last'.ep), last'.sid)) =>
       /\ last'.status = (IF last'.op = "POST" THEN BadRequest ELSE NotFound)
       /\ last'.t = 0
       /\ transport' = transport
       /\ RegistriesUnchanged
  /\ (last' # last /\ last'.op # "none") =>
       RegistryOfNext(OtherEndpoint(last'.ep)) = RegistryOf(OtherEndpoint(last'.ep))

\* C32: the registries of /mcp and /mcp-app share no session id; a request
\* that presents at one endpoint an id registered at the other is refused
\* (POST with 400, GET and DELETE with 404) and touches no transport, and a
\* request, continuation or close belonging to one endpoint leaves the other
\* endpoint's registry as it was.
C32_EndpointsIsolated == [](C32_DisjointKeys) /\ [][C32_Step]_vars

\* with a session registered at each endpoint, a DELETE at one endpoint
\* presenting the other's id was answered 404
C32_Witness ==
  /\ last.op = "DELETE" /\ last.status = NotFound
  /\ InRegistry(OtherEndpoint(last.ep), last.sid)
  /\ DOMAIN RegistryOf(last.ep) # {}

\* --------------------------------------------------------------------- C33
\* C33: the pending-request map holds exactly the ids of the requests sent
\* and not yet settled: every key lies in 1..requestId and belongs to a call
\* whose promise is unsettled and whose timer is armed, and every call whose
\* promise is unsettled has its id in the map.
C33_PendingExactlyUnsettled ==
  /\ \A id \in DOMAIN pendingRequests :
       LET k == pendingRequests[id]
       IN  /\ id \in 1..requestId
           /\ k \in DOMAIN calls
           /\ calls[k].id = id
           /\ calls[k].outcome = <<>>
           /\ k \in timers
  /\ \A k \in DOMAIN calls :
       calls[k].outcome = <<>> =>
         /\ calls[k].id \in DOMAIN pendingRequests
         /\ pendingRequests[calls[k].id] = k

\* of two requests sent, the first has been settled and the second is pending
C33_Witness ==
  /\ Len(calls) = 2
  /\ calls[1].outcome # <<>>
  /\ DOMAIN pendingRequests = {calls[2].id}
  /\ timers = {2}

\* --------------------------------------------------------------------- C34
\* the step is the dispatch of a message event on the window
MessageDispatched ==
  event'.op \in {"undelivered", "ignored", "unclassified", "response",
                 "unknown-response", "notification"}

\* the step condition of C34
C34_Step ==
  /\ (Destroyed \/ event.op = "destroy") => ~listening'
  /\ ((Destroyed \/ event.op = "destroy") /\ MessageDispatched) =>
       /\ event'.op = "undelivered"
       /\ calls' = calls
       /\ pendingRequests' = pendingRequests
       /\ timers' = timers
       /\ initialized' = initialized
       /\ hostContext' = hostContext
       /\ toolArguments' = toolArguments
       /\ toolResult' = toolResult
       /\ state' = state
       /\ posted' = posted

\* C34: once destroy() has run the message listener stays detached, and a
\* response or notification arriving afterwards reaches no code of the
\* client: it settles no promise, invokes no handler and changes neither the
\* cached host context nor the cached tool input and result.
C34_InertAfterDestroy == [][C34_Step]_vars

\* after destroy() a request was sent, and the host's reply to it was not
\* delivered: the request is still pending
C34_Witness ==
  /\ event.op = "undelivered"
  /\ ~listening
  /\ pendingRequests # <<>>
  /\ \E k \in DOMAIN calls : calls[k].outcome = <<"rejected-destroyed">>

\* --------------------------------------------------------------------- C35
\* the ui/initialize calls the step rejects
FailedHandshakes ==
  {k \in DOMAIN calls :
     /\ calls[k].method = "ui/initialize"
     /\ calls'[k].outcome # calls[k].outcome
     /\ calls'[k].outcome[Len(calls'[k].outcome)] \in
          {"rejected-remote", "rejected-timeout", "rejected-destroyed"}}

\* while no ui/initialize request has succeeded the client is uninitialized
C35_UninitializedUntilSuccess ==
  Handshakes = {} =>
    /\ ~initialized
    /\ hostContext = Null
    /\ ~state.initialized
    /\ \A i \in DOMAIN posted : posted[i] # InitializedNotification

\* the step condition of C35
C35_Step ==
  FailedHandshakes # {} =>
    /\ initialized' = initialized
    /\ hostContext' = hostContext
    /\ posted' = posted
    /\ state'.initialized = state.initialized
    /\ state'.hostContext = state.hostContext

\* C35: a ui/initialize request that fails (by an error response, by its
\* timeout or by destroy() while it is in flight) leaves isInitialized() and
\* the cached host context as they were and posts nothing; as long as no
\* request has succeeded the client is uninitialized, has no host context and
\* has posted no ui/notifications/initialized.
C35_FailedHandshakeLeavesNoTrace ==
  [](C35_UninitializedUntilSuccess) /\ [][C35_Step]_vars

\* the store's handshake was refused by the host and a second one, made on
\* the client, was in flight when destroy() ran
C35_Witness ==
  /\ Len(calls) = 2
  /\ initPromise = 1
  /\ calls[1].outcome = <<"rejected-remote">>
  /\ calls[2].method = "ui/initialize"
  /\ calls[2].outcome = <<"rejected-destroyed">>
  /\ ~initialized /\ ~state.initialized /\ state.error = "remote"
  /\ \A i \in DOMAIN posted : posted[i].kind = "request"

\* --------------------------------------------------------------------- C36
\* state.initialized and state.error tell how the one initialization ended
C36_StateFollowsOutcome ==
  /\ initPromise # 0 => calls[initPromise].method = "ui/initialize"
  /\ state.initialized =>
       initPromise # 0 /\ calls[initPromise].outcome = <<"resolved">>
  /\ state.error # "null" =>
       /\ initPromise # 0
       /\ calls[initPromise].outcome \in
            {<<"rejected-remote">>, <<"rejected-timeout">>, <<"rejected-destroyed">>}
       /\ ~state.initialized

\* the step condition of C36
C36_Step ==
  /\ initPromise' # initPromise => initPromise = 0 /\ event'.op = "store.initialize"
  /\ (event'.op = "store.initialize" /\ initPromise # 0) =>
       /\ event'.k = initPromise
       /\ calls' = calls /\ posted' = posted /\ requestId' = requestId
       /\ pendingRequests' = pendingRequests /\ timers' = timers
       /\ notificationHandlers' = notificationHandlers
       /\ state' = state
  /\ (\E m \in DOMAIN notificationHandlers' :
        /\ "store" \in notificationHandlers'[m]
        /\ "store" \notin HandlersOf(notificationHandlers, m)) =>
       initPromise = 0 /\ initPromise' # 0

\* C36: McpUiStore initializes at most once. Every initialize() after the
\* first returns the first call's promise, be it pending, fulfilled or
\* rejected, and does nothing else: the store's handlers are registered by the
\* first call only and a failed initialization is not retried.
\* state.initialized is true only once that initialization has succeeded and
\* state.error is set only once it has failed.
C36_StoreInitializesOnce == [](C36_StateFollowsOutcome) /\ [][C36_Step]_vars

\* store.initialize() has just been called again after the one initialization
\* had timed out
C36_Witness ==
  /\ event = [op |-> "store.initialize", id |-> 0, k |-> 1]
  /\ initPromise = 1
  /\ Len(calls) = 1
  /\ calls[1].outcome = <<"rejected-timeout">>
  /\ state.error = "timeout" /\ ~state.initialized

\* --------------------------------------------------------------------- C37
\* C37: once the store is initialized, the host context in the store's state
\* equals the one the client returns from getHostContext(), whatever
\* host-context-changed notifications have arrived since and whether or not
\* the initialize reply carried a hostContext.
C37_OneHostContext ==
  (state.initialized /\ Cardinality(Handshakes) = 1) =>
    state.hostContext = hostContext

\* --------------------------------------------------------------------- C38
\* there is at most one instance, the one constructed last
C38_OneInstance == clientInstance \in {0, constructed}

\* the step condition of C38
C38_Step ==
  /\ (event'.op = "getMcpUiClient" /\ clientInstance # 0) =>
       /\ event'.id = clientInstance
       /\ UNCHANGED <<clientInstance, constructed, clientOptions, requestId,
                      pendingRequests, notificationHandlers, listening, calls, timers>>
  /\ (event'.op = "getMcpUiClient" /\ clientInstance = 0) =>
       /\ constructed' = constructed + 1
       /\ clientInstance' = constructed' /\ event'.id = constructed'
       /\ requestId' = 0 /\ pendingRequests' = <<>> /\ notificationHandlers' = <<>>
       /\ listening'
  /\ (event'.op = "resetMcpUiClient" /\ clientInstance # 0) =>
       /\ clientInstance' = 0
       /\ ~listening'
       /\ pendingRequests' = <<>> /\ notificationHandlers' = <<>>
       /\ \A id \in DOMAIN pendingRequests :
            /\ calls'[pendingRequests[id]].outcome = <<"rejected-destroyed">>
            /\ pendingRequests[id] \notin timers'
       /\ constructed' = constructed
  /\ (event'.op = "resetMcpUiClient" /\ clientInstance = 0) =>
       UNCHANGED <<clientInstance, constructed, clientOptions, requestId,
                   pendingRequests, notificationHandlers, listening, calls, timers,
                   posted>>
  /\ constructed' # constructed => event'.op = "getMcpUiClient"
  /\ clientInstance' # clientInstance =>
       event'.op \in {"getMcpUiClient", "resetMcpUiClient"}
  /\ (event'.op = "sendRequest" /\ requestId = 0) => event'.id = 1

\* C38: there is one client instance at a time. getMcpUiClient returns the
\* instance there is, whatever options it is passed, and constructs one only
\* when there is none; resetMcpUiClient destroys the instance, rejecting its
\* pending requests, and does nothing when there is none; the instance
\* constructed after a reset numbers its requests from 1 again.
C38_OneClientPerWidget == [](C38_OneInstance) /\ [][C38_Step]_vars

\* the second instance has sent its first request, numbered 1 like the first
\* instance's request that the reset rejected
C38_Witness ==
  /\ clientInstance = 2 /\ constructed = 2
  /\ event = [op |-> "sendRequest", id |-> 1, k |-> 2]
  /\ calls[1].id = 1 /\ calls[1].outcome = <<"rejected-destroyed">>
  /\ calls[2].id = 1 /\ calls[2].outcome = <<>>
  /\ DOMAIN pendingRequests = {1}

\* --------------------------------------------------------------------- C39
\* C39: once no debounce timer is pending, the last size-changed notification
\* sent to the host carries the size reported last.
C39_ConvergesToLatest ==
  (~timeoutRef.armed /\ reported # <<>> /\ sizesSent # <<>>) =>
    sizesSent[Len(sizesSent)] = reported[Len(reported)]

====
